---- MODULE Spec2Model ----
(***************************************************************************)
(* Verification model of the streaming text pipeline of realtime_subtitles *)
(*   livecaptions/manager.py   TranslationStateManager                     *)
(*   vosk_pipeline.py          StreamingPipeline (producer / consumer)     *)
(*   audio/buffer.py           StreamingAudioBuffer                        *)
(* A Python str is a sequence of one-character strings; "" is << >>.       *)
(***************************************************************************)
EXTENDS Integers, Sequences, FiniteSets, TLC

VARIABLES
    translator,             \* TRUE: a translator callable was injected; FALSE: None
    committed_sources,      \* self._committed_sources
    committed_paragraphs,   \* self._committed_paragraphs
    draft_sources,          \* self._draft_sources
    draft_translation,      \* self._draft_translation
    last_processed_text,    \* self._last_processed_text
    tlog,                   \* translator calls made by the latest process_text
    result,                 \* TranslationState returned by the latest process_text
    trace,                  \* the path the latest call took, the committed sources
                            \* and paragraphs at its entry, and the fields as they
                            \* were after alignment and at line 133
    ncalls,                 \* process_text calls made so far
    nfail,                  \* translator calls that raised or returned nothing so far
    nraise                  \* translator calls that raised so far

\* StreamingPipeline (vosk_pipeline.py)
VARIABLES
    state_manager,          \* a TranslationStateManager was built (translation enabled)
    running,                \* _running
    capturing,              \* the audio capture is started and calls _on_audio
    audio_queue,            \* _audio_queue: the chunks put and not yet got
    latest_raw_text,        \* _latest_raw_text: 0 is the empty string
    new_text_event,         \* _new_text_event is set
    text_lock,              \* the thread holding _text_lock, or Nobody
    process_thread,         \* _process_thread: the latest ASR thread, 0 for None
    translation_thread,     \* _translation_thread: the latest translation thread
    asr,                    \* per started ASR thread: its position and raw_text
    tr,                     \* per started translation thread: position, raw_text,
                            \* and the slot writes its latest take stood for
    ctl,                    \* the caller of start() and stop(): idle or inside stop()
    chunks,                 \* audio chunks captured so far
    starts,                 \* start() calls that started threads so far
    writes,                 \* writes to _latest_raw_text made by ASR threads so far
    slot_write,             \* which write _latest_raw_text holds, 0 after start()
    unread,                 \* the writes since the latest take or start(), in order
    last_passed,            \* the write whose text was passed to process_text last
    subtitle,               \* the event on_subtitle was called with last
    stream_from,            \* the session of the oldest audio the transcriber's stream
                            \* holds, 0 for a stream that holds none
    last_sent_text          \* LiveCaptionsPipeline._last_sent_text (livecaptions/pipeline.py)

pvars == <<state_manager, running, capturing, audio_queue, latest_raw_text,
           new_text_event, text_lock, process_thread, translation_thread, asr, tr,
           ctl, chunks, starts, writes, slot_write, unread, last_passed, subtitle,
           stream_from, last_sent_text>>

\* StreamingAudioBuffer (audio/buffer.py); times in milliseconds, -1 for None
VARIABLES
    use_vad,                \* a VoiceActivityDetector classifies the chunks
    buffer,                 \* _buffer: the chunks held, oldest first
    buffer_samples,         \* _buffer_samples
    speech_started,         \* _speech_started
    speech_start_time,      \* _speech_start_time
    silence_start_time,     \* _silence_start_time
    pre_buffer,             \* _pre_buffer: the number of samples it holds
    vad_used,               \* _vad has classified audio since it was made or reset
    now,                    \* time.time()
    emitted,                \* the segments handed to on_segment_ready, in order
    callbacks,              \* on_segment_ready calls that have not returned
    add_pc,                 \* where the add_audio call in progress is
    call,                   \* the latest call on the buffer, as its caller saw it
    silence_since,          \* when the first silence chunk after the latest speech
                            \* chunk was added, -1 if the latest chunk was speech
    nadds                   \* add_audio calls made so far

bvars == <<use_vad, buffer, buffer_samples, speech_started, speech_start_time,
           silence_start_time, pre_buffer, vad_used, now, emitted, callbacks, add_pc, call, silence_since, nadds>>

mvars == <<translator, committed_sources, committed_paragraphs, draft_sources,
           draft_translation, last_processed_text, tlog, result, trace, ncalls, nfail, nraise>>

\* RealtimePipeline (pipeline.py): the segments its buffer emits, the threads
\* that deliver them, and the transcription loop
VARIABLES
    emissions,              \* how many segments the buffer has emitted so far
    deliver,                \* per emitted segment: where its delivery thread is
    transcription_queue,    \* _transcription_queue: the segments put and not yet got
    dropped_segments,       \* _dropped_segments
    transcription           \* the transcription loop: its position and its segment

rvars == <<emissions, deliver, transcription_queue, dropped_segments, transcription>>

vars == <<mvars, pvars, bvars, rvars>>

(***************************************************************************)
(* Strings                                                                 *)
(***************************************************************************)
\* F applied to the value of v, v being computed once
With(v, F(_)) == CHOOSE r \in {F(x) : x \in {v}} : TRUE

Min(a, b) == IF a < b THEN a ELSE b
Max(a, b) == IF a > b THEN a ELSE b

\* characters str.strip() removes that occur in the modelled alphabet
Whitespace == {" ", "\t", "\n", "\r"}

\* s.strip(): from the first to the last non-whitespace character
strip(s) ==
    IF \A i \in 1..Len(s) : s[i] \in Whitespace THEN <<>>
    ELSE LET n == Len(s)
             first == CHOOSE i \in 1..n :
                         s[i] \notin Whitespace /\ \A k \in 1..(i - 1) : s[k] \in Whitespace
             back == CHOOSE j \in 1..n :
                        /\ s[n + 1 - j] \notin Whitespace
                        /\ \A k \in 1..(j - 1) : s[n + 1 - k] \in Whitespace
         IN  SubSeq(s, first, n + 1 - back)

\* the letters of the modelled alphabet
LowerCase == <<"a", "b", "c", "d", "e", "f", "g", "h", "i", "j", "k", "l", "m", "n", "o", "p">>
UpperCase == <<"A", "B", "C", "D", "E", "F", "G", "H", "I", "J", "K", "L", "M", "N", "O", "P">>

\* str.lower() on the modelled alphabet
lower_char(c) ==
    IF \E n \in 1..Len(UpperCase) : UpperCase[n] = c
    THEN LowerCase[CHOOSE n \in 1..Len(UpperCase) : UpperCase[n] = c]
    ELSE c

lower(s) == SubSeq([i \in 1..Len(s) |-> lower_char(s[i])], 1, Len(s))

\* sep.join(parts)
RECURSIVE join(_, _)
join(sep, parts) ==
    IF parts = <<>> THEN <<>>
    ELSE IF Len(parts) = 1 THEN parts[1]
    ELSE parts[1] \o sep \o join(sep, Tail(parts))

(***************************************************************************)
(* TranslationStateManager: class constants                                *)
(***************************************************************************)
\* r'[.。？！?!\n，,、]' : the non-ASCII members are written by their names
SENTENCE_DELIMITERS ==
    {".", "IDEOGRAPHIC FULL STOP", "FULLWIDTH QUESTION MARK",
     "FULLWIDTH EXCLAMATION MARK", "?", "!", "\n", "FULLWIDTH COMMA", ",",
     "IDEOGRAPHIC COMMA"}
MAX_SENTENCE_LENGTH == 80
DRAFT_COMMIT_THRESHOLD == 6
COMMIT_COUNT == 4
DRAFT_CHAR_THRESHOLD == 150
\* FUZZY_THRESHOLD = 0.65, in hundredths
FUZZY_THRESHOLD == 65
MAX_DRAFT_SENTENCES == 8

(***************************************************************************)
(* _segment_sentences                                                      *)
(***************************************************************************)
\* re.split(SENTENCE_DELIMITERS, text): the parts between delimiters, empty
\* parts included; part k lies between the (k-1)-th and the k-th delimiter.
re_split(text) ==
    LET cuts == {i \in 1..Len(text) : text[i] \in SENTENCE_DELIMITERS}
        cut(k) == IF k = 0 THEN 0
                  ELSE IF k > Cardinality(cuts) THEN Len(text) + 1
                  ELSE CHOOSE i \in cuts : Cardinality({c \in cuts : c < i}) = k - 1
    IN  [k \in 1..(Cardinality(cuts) + 1) |-> SubSeq(text, cut(k - 1) + 1, cut(k) - 1)]

\* for i in range(0, len(part), MAX_SENTENCE_LENGTH): part[i:i+MAX].strip()
RECURSIVE split_by_length(_, _)
split_by_length(part, i) ==
    IF i >= Len(part) THEN <<>>
    ELSE LET chunk == strip(SubSeq(part, i + 1, Min(i + MAX_SENTENCE_LENGTH, Len(part))))
         IN  (IF chunk # <<>> THEN <<chunk>> ELSE <<>>)
                 \o split_by_length(part, i + MAX_SENTENCE_LENGTH)

sentences_of_part(p) ==
    LET part == strip(p)
    IN  IF part = <<>> THEN <<>>
        ELSE IF Len(part) > MAX_SENTENCE_LENGTH THEN split_by_length(part, 0)
        ELSE <<part>>

RECURSIVE sentences_of_parts(_)
sentences_of_parts(parts) ==
    IF parts = <<>> THEN <<>>
    ELSE sentences_of_part(Head(parts)) \o sentences_of_parts(Tail(parts))

segment_sentences(text) ==
    IF text = <<>> THEN <<>> ELSE sentences_of_parts(re_split(text))

(***************************************************************************)
(* _similarity: difflib.SequenceMatcher(None, a.lower(), b.lower()).ratio()*)
(* Positions are Python's (0-based, half-open ranges).  Sentences are at   *)
(* most MAX_SENTENCE_LENGTH long, below difflib's autojunk size of 200, so *)
(* no character is ever treated as junk.                                   *)
(***************************************************************************)
\* One row of find_longest_match's j2len table, as a tuple over all of b:
\* entry j+1 is the length of the common run ending at a[i] and b[j].
j2len_row(a, b, i, blo, bhi, prev) ==
    SubSeq([j1 \in 1..Len(b) |->
               IF j1 - 1 >= blo /\ j1 - 1 < bhi /\ a[i + 1] = b[j1]
               THEN (IF j1 - 1 > blo THEN prev[j1 - 1] ELSE 0) + 1
               ELSE 0],
           1, Len(b))

\* for j ascending: if k > bestsize: besti, bestj, bestsize = i-k+1, j-k+1, k
\* (the first j that holds the row's largest k, when that beats bestsize)
best_in_row(row, i, blo, bhi, best) ==
    LET sizes == {row[j + 1] : j \in blo..(bhi - 1)}
        k == IF sizes = {} THEN 0 ELSE CHOOSE x \in sizes : \A y \in sizes : y <= x
        js == {j \in blo..(bhi - 1) : row[j + 1] = k}
        j0 == CHOOSE j \in js : \A j2 \in js : j <= j2
    IN  IF k > best.size
        THEN [i |-> i - k + 1, j |-> j0 - k + 1, size |-> k]
        ELSE best

\* for i in range(alo, ahi)
RECURSIVE longest_match_from(_, _, _, _, _, _, _, _)
longest_match_from(a, b, i, ahi, blo, bhi, prev, best) ==
    IF i >= ahi THEN best
    ELSE LET row == j2len_row(a, b, i, blo, bhi, prev)
             newbest == best_in_row(row, i, blo, bhi, best)
         IN  IF newbest.size >= best.size
             THEN longest_match_from(a, b, i + 1, ahi, blo, bhi, row, newbest)
             ELSE best

find_longest_match(a, b, alo, ahi, blo, bhi) ==
    longest_match_from(a, b, alo, ahi, blo, bhi, [j \in 1..Len(b) |-> 0],
                       [i |-> alo, j |-> blo, size |-> 0])

\* the total size of get_matching_blocks()
RECURSIVE matching_size(_, _, _, _, _, _)
matching_size(a, b, alo, ahi, blo, bhi) ==
    With(find_longest_match(a, b, alo, ahi, blo, bhi), LAMBDA m :
        IF m.size = 0 THEN 0
        ELSE m.size
             + (IF alo < m.i /\ blo < m.j
                THEN matching_size(a, b, alo, m.i, blo, m.j) ELSE 0)
             + (IF m.i + m.size < ahi /\ m.j + m.size < bhi
                THEN matching_size(a, b, m.i + m.size, ahi, m.j + m.size, bhi) ELSE 0))

\* the ratio 2.0 * matches / (len(a) + len(b)) as a fraction; 0.0 for an empty string
similarity(a, b) ==
    IF a = <<>> \/ b = <<>> THEN [num |-> 0, den |-> 1]
    ELSE With(lower(a), LAMBDA la : With(lower(b), LAMBDA lb :
             [num |-> 2 * matching_size(la, lb, 0, Len(la), 0, Len(lb)),
              den |-> Len(la) + Len(lb)]))

\* similarity >= self.FUZZY_THRESHOLD
fuzzy_match(a, b) ==
    With(similarity(a, b), LAMBDA r : 100 * r.num >= FUZZY_THRESHOLD * r.den)

(***************************************************************************)
(* The source texts handed to process_text: windows of a growing           *)
(* transcript, with one sentence possibly revised by the recognizer, and   *)
(* blank, unpunctuated and long texts.                                     *)
(***************************************************************************)
MaxSent == 14       \* sentences in the longest transcript
MaxDrop == 1        \* leading sentences the source may have scrolled away
MaxRev == 3         \* positions at which a sentence may come back revised
MaxCalls == 3       \* process_text calls in one run
MaxFail == 1        \* translator calls that raise or return nothing in one run

\* the translator calls of one process_text call that failed
failures(l) == Cardinality({i \in 1..Len(l) : l[i].outcome # "ok"})

repeat(c, n) == [i \in 1..n |-> c]

\* the i-th sentence of the transcript and the delimiter that follows it
sentence(i) == <<LowerCase[i], LowerCase[i]>>
delimiter(i) ==
    CASE i % 4 = 0 -> <<",">>
      [] i % 4 = 1 -> <<".", " ">>
      [] i % 4 = 2 -> <<"!", "\n">>
      [] OTHER     -> <<"?", " ">>

\* a revision of sentence i that still matches it (ratio 0.8), and one that
\* does not (ratio 0.5)
revision(i, v) ==
    IF v = "similar" THEN <<UpperCase[i], LowerCase[i], "x">>
    ELSE <<"z", LowerCase[i]>>

\* sentences lo..hi of the transcript, sentence k (if in range) as revised by v
RECURSIVE transcript(_, _, _, _)
transcript(lo, hi, k, v) ==
    IF lo > hi THEN <<>>
    ELSE (IF lo = k THEN revision(lo, v) ELSE sentence(lo)) \o delimiter(lo)
             \o transcript(lo + 1, hi, k, v)

SpecialTexts ==
    { <<>>,                                           \* empty
      <<" ", " ">>,                                   \* blank
      <<".", " ", ",">>,                              \* delimiters only
      repeat("x", 2 * MAX_SENTENCE_LENGTH + 10),      \* a run-on text, no punctuation
      repeat("y", 75) \o <<".", " ">> \o repeat("w", 75) }

\* the transcript as it grows, after its head scrolled away, and with one of
\* the first sentences revised
Texts ==
    { transcript(1, hi, 0, "similar") : hi \in 1..MaxSent }
    \cup { transcript(lo, MaxSent, 0, "similar") : lo \in 2..(MaxDrop + 1) }
    \cup { transcript(1, COMMIT_COUNT + 1, k, v) :
              k \in 1..MaxRev, v \in {"similar", "different"} }
    \cup { transcript(1, MaxSent, k, "different") : k \in 2..MaxRev }
    \cup SpecialTexts

\* Every sentence of every text, and for the texts and sentences of a run the
\* values of _segment_sentences and of the fuzzy match, computed once
Sentences == UNION {{segment_sentences(t)[i] : i \in 1..Len(segment_sentences(t))} : t \in Texts}
SegmentTable == [t \in Texts |-> segment_sentences(t)]
MatchTable == [p \in Sentences \X Sentences |-> fuzzy_match(p[1], p[2])]

segmented(text) ==
    IF text \in DOMAIN SegmentTable THEN SegmentTable[text] ELSE segment_sentences(text)
matches(a, b) ==
    IF <<a, b>> \in DOMAIN MatchTable THEN MatchTable[<<a, b>>] ELSE fuzzy_match(a, b)

(***************************************************************************)
(* The injected translator (external).  One call either returns a          *)
(* non-empty translation, returns an empty string, or raises.              *)
(***************************************************************************)
Outcomes == {"ok", "empty", "raise"}

\* the text a successful call returns for source text t
translate(t) == <<"#">> \o t

\* self.translator(text) or "" : the value of a call that did not raise
translated_or_empty(t, outcome) == IF outcome = "ok" THEN translate(t) ELSE <<>>

\* the outcomes a call may have when the translator may still fail budget
\* times; {"none"} when the call is not made
outcomes_of(called, budget) ==
    IF ~called THEN {"none"} ELSE IF budget > 0 THEN Outcomes ELSE {"ok"}

failed(outcome) == IF outcome \in {"empty", "raise"} THEN 1 ELSE 0

\* the translator calls of a log that raised
raises(l) == Cardinality({i \in 1..Len(l) : l[i].outcome = "raise"})

\* the translator calls made inside a try whose except catches Exception,
\* the re-translation of the remaining draft taken as made outside of one
guarded_calls_but_redraft == {"retranslate", "draft", "commit"}

\* the same, the translation of the commit batch taken as made outside of one
guarded_calls_but_commit == {"retranslate", "draft", "redraft"}

\* the translator calls made inside a try whose except catches Exception:
\* lines 219-224, 141-148, 263-268 and 272-276
guarded_calls == {"retranslate", "draft", "commit", "redraft"}

\* an exception of the translator that no except catches leaves process_text
escapes(l) == \E i \in 1..Len(l) : l[i].outcome = "raise" /\ l[i].kind \notin guarded_calls

\* what the caller of process_text gets when an exception leaves it
Exception == [raised |-> "Exception"]

log_entry(kind, t, outcome) ==
    IF outcome = "none" THEN <<>>
    ELSE <<[kind |-> kind, text |-> t, outcome |-> outcome]>>

(***************************************************************************)
(* TranslationStateManager                                                 *)
(***************************************************************************)
\* TranslationState(committed_text, draft_text)
build_state(paragraphs, draft) ==
    [committed_text |-> join(<<"\n">>, paragraphs), draft_text |-> draft]

\* process_text without the cold-start safeguard
cold_start_window_off(committed, sentences) == sentences

\* the cold-start safeguard: source_sentences[-DRAFT_COMMIT_THRESHOLD:]
cold_start_window(committed, sentences) ==
    IF committed = <<>> /\ Len(sentences) > DRAFT_COMMIT_THRESHOLD
    THEN SubSeq(sentences, Len(sentences) - DRAFT_COMMIT_THRESHOLD + 1, Len(sentences))
    ELSE sentences

\* match_loop keeping one sentence too many at a mismatch
RECURSIVE match_loop_keeping(_, _, _, _)
match_loop_keeping(committed, source_sentences, i, matched) ==
    IF i >= Len(committed) THEN [matched |-> matched, trimmed |-> FALSE, keep |-> Len(committed)]
    ELSE IF i >= Len(source_sentences)
         THEN [matched |-> matched, trimmed |-> TRUE, keep |-> i]
    ELSE IF matches(committed[i + 1], source_sentences[i + 1])
         THEN match_loop_keeping(committed, source_sentences, i + 1, i + 1)
    ELSE [matched |-> i, trimmed |-> TRUE, keep |-> i + 1]

\* the loop of _find_committed_end; i is the loop index, matched is matched_count
RECURSIVE match_loop(_, _, _, _)
match_loop(committed, source_sentences, i, matched) ==
    IF i >= Len(committed) THEN [matched |-> matched, trimmed |-> FALSE, keep |-> Len(committed)]
    ELSE IF matched >= Len(source_sentences)
         THEN [matched |-> matched, trimmed |-> TRUE, keep |-> matched]
    ELSE IF matches(committed[i + 1], source_sentences[matched + 1])
         THEN match_loop(committed, source_sentences, i + 1, matched + 1)
    ELSE [matched |-> matched, trimmed |-> TRUE, keep |-> i]

\* _find_committed_end: the index after the last matched committed sentence,
\* whether the committed list is trimmed, and how many sentences it keeps
find_committed_end(committed, source_sentences) ==
    IF committed = <<>> THEN [matched |-> 0, trimmed |-> FALSE, keep |-> 0]
    ELSE match_loop(committed, source_sentences, 0, 0)

\* _retranslate_committed makes a translator call
retranslate_calls(hasTranslator, committed) == committed # <<>> /\ hasTranslator

\* _retranslate_committed adding the rebuilt paragraph to the old ones
retranslate_committed_appending(hasTranslator, committed, paragraphs, outcome) ==
    IF committed = <<>> \/ ~hasTranslator THEN <<>>
    ELSE IF outcome = "ok" THEN Append(paragraphs, translate(join(<<" ">>, committed)))
    ELSE paragraphs

\* _retranslate_committed: the paragraphs after a trim
retranslate_committed(hasTranslator, committed, paragraphs, outcome) ==
    IF committed = <<>> \/ ~hasTranslator THEN <<>>
    ELSE IF outcome = "raise" THEN paragraphs
    ELSE IF outcome = "ok" THEN <<translate(join(<<" ">>, committed))>>
    ELSE <<>>

\* sum(len(s) for s in self._draft_sources)
RECURSIVE char_length(_)
char_length(sentences) ==
    IF sentences = <<>> THEN 0 ELSE Len(Head(sentences)) + char_length(Tail(sentences))

should_commit(draft) ==
    \/ Len(draft) >= DRAFT_COMMIT_THRESHOLD
    \/ char_length(draft) >= DRAFT_CHAR_THRESHOLD

\* commit_target taking the whole draft
commit_target_all(draft) == Len(draft)

commit_target(draft) ==
    IF Len(draft) < COMMIT_COUNT THEN Max(1, Len(draft) - 1) ELSE COMMIT_COUNT

\* self._draft_sources[:commit_target]
to_commit(draft) == SubSeq(draft, 1, Min(commit_target(draft), Len(draft)))

\* self._draft_sources[self.COMMIT_COUNT:]
remaining_draft(draft) == SubSeq(draft, COMMIT_COUNT + 1, Len(draft))

\* the paragraphs after the commit batch was translated
paragraphs_after_commit(hasTranslator, paragraphs, batch, outcome) ==
    IF hasTranslator /\ outcome = "ok"
    THEN Append(paragraphs, translate(join(<<" ">>, batch)))
    ELSE paragraphs

\* skipped_count without the cap: nothing is ever skipped
skipped_count_uncapped(draft) == 0

\* skipped_count one short: the draft keeps one sentence over the cap
skipped_count_short(draft) ==
    IF Len(draft) > MAX_DRAFT_SENTENCES THEN Len(draft) - MAX_DRAFT_SENTENCES - 1 ELSE 0

\* the draft part kept when the draft is over MAX_DRAFT_SENTENCES, and the part skipped
skipped_count(draft) ==
    IF Len(draft) > MAX_DRAFT_SENTENCES THEN Len(draft) - MAX_DRAFT_SENTENCES ELSE 0

\* the draft translation kept and the new one added to it
draft_translation_appended(old, new) == old \o new

\* self._draft_translation = ... : the new translation replaces the old one
draft_translation_assigned(old, new) == new

\* what trace holds after a call that returned before the alignment
short_path(path, entry, entry_paragraphs) ==
    [path |-> path, entry |-> entry, entry_paragraphs |-> entry_paragraphs, trimmed |-> FALSE, matched |-> 0,
     committed |-> <<>>, paragraphs |-> <<>>, skipped |-> <<>>, draft |-> <<>>]

\* the duplicate check taken for "nothing to show": the draft translation is dropped
process_text_duplicate_dropping(full_source_text) ==
    /\ full_source_text = last_processed_text
    /\ draft_translation' = <<>>
    /\ result' = build_state(committed_paragraphs, <<>>)
    /\ tlog' = <<>>
    /\ trace' = short_path("duplicate", committed_sources, committed_paragraphs)
    /\ UNCHANGED <<translator, committed_sources, committed_paragraphs, draft_sources,
                   last_processed_text>>

\* process_text, the duplicate check: the text has not changed
process_text_duplicate(full_source_text) ==
    /\ full_source_text = last_processed_text
    /\ result' = build_state(committed_paragraphs, draft_translation)
    /\ tlog' = <<>>
    /\ trace' = short_path("duplicate", committed_sources, committed_paragraphs)
    /\ UNCHANGED <<translator, committed_sources, committed_paragraphs, draft_sources,
                   draft_translation, last_processed_text>>

\* process_text on empty or blank text, or text without a sentence
process_text_blank(full_source_text) ==
    /\ full_source_text # last_processed_text
    /\ \/ full_source_text = <<>>
       \/ strip(full_source_text) = <<>>
       \/ segmented(full_source_text) = <<>>
    /\ last_processed_text' = full_source_text
    /\ result' = build_state(committed_paragraphs, draft_translation)
    /\ tlog' = <<>>
    /\ trace' = short_path("blank", committed_sources, committed_paragraphs)
    /\ UNCHANGED <<translator, committed_sources, committed_paragraphs, draft_sources,
                   draft_translation>>

\* process_text on a text with sentences: align, cap the draft, translate it, commit
process_text_update(full_source_text, budget) ==
    /\ full_source_text # last_processed_text
    /\ full_source_text # <<>>
    /\ strip(full_source_text) # <<>>
    /\ \E source_sentences \in
              {cold_start_window(committed_sources, segmented(full_source_text))} :
       source_sentences # <<>> /\
       \E end \in {find_committed_end(committed_sources, source_sentences)} :
       \E committed1 \in {SubSeq(committed_sources, 1, end.keep)} :
       \E draft0 \in {SubSeq(source_sentences, end.matched + 1, Len(source_sentences))} :
       \E skipped \in {skipped_count(draft0)} :
       \* lines 123-133: the skipped part goes to the committed sources
       \E committed2 \in {committed1 \o SubSeq(draft0, 1, skipped)} :
       \E draft1 \in {SubSeq(draft0, skipped + 1, Len(draft0))} :
       \E commits \in {draft1 # <<>> /\ should_commit(draft1)} :
       \E draft2 \in {IF commits THEN remaining_draft(draft1) ELSE draft1} :
       \* the translator calls of this update and what each does
       \E oRe \in outcomes_of(end.trimmed /\ retranslate_calls(translator, committed1),
                               budget) :
       \E oDraft \in outcomes_of(draft1 # <<>> /\ translator, budget - failed(oRe)) :
       \E oBatch \in outcomes_of(commits /\ translator,
                                  budget - failed(oRe) - failed(oDraft)) :
       \E oRedraft \in outcomes_of(commits /\ draft2 # <<>> /\ translator,
                                    budget - failed(oRe) - failed(oDraft) - failed(oBatch)) :
       \E paragraphs1 \in
              {IF end.trimmed
               THEN retranslate_committed(translator, committed1, committed_paragraphs, oRe)
               ELSE committed_paragraphs} :
       \* lines 135-148: the draft translation before the commit check
       \E translation1 \in
              {IF draft1 = <<>> THEN <<>>
               ELSE IF translator
                    THEN draft_translation_assigned(draft_translation,
                             translated_or_empty(join(<<" ">>, draft1), oDraft))
               ELSE draft_translation} :
       \* lines 270-278: the draft translation after a commit
       \E translation2 \in
              {IF ~commits THEN translation1
               ELSE IF draft2 # <<>> /\ translator
                    THEN (IF oRedraft = "raise" THEN translation1
                          ELSE draft_translation_assigned(translation1,
                                   translated_or_empty(join(<<" ">>, draft2), oRedraft)))
                    ELSE <<>>} :
       \E paragraphs2 \in
              {IF commits
               THEN paragraphs_after_commit(translator, paragraphs1, to_commit(draft1), oBatch)
               ELSE paragraphs1} :
         /\ last_processed_text' = full_source_text
         /\ committed_sources' =
                IF commits THEN committed2 \o to_commit(draft1) ELSE committed2
         /\ committed_paragraphs' = paragraphs2
         /\ draft_sources' = draft2
         /\ draft_translation' = translation2
         /\ tlog' = log_entry("retranslate", join(<<" ">>, committed1), oRe)
                    \o log_entry("draft", join(<<" ">>, draft1), oDraft)
                    \o log_entry("commit", join(<<" ">>, to_commit(draft1)), oBatch)
                    \o log_entry("redraft", join(<<" ">>, draft2), oRedraft)
         /\ result' = IF escapes(tlog') THEN Exception
                       ELSE build_state(paragraphs2, translation2)
         /\ trace' = [path |-> "update", entry |-> committed_sources,
                      entry_paragraphs |-> committed_paragraphs,
                      trimmed |-> end.trimmed, matched |-> end.matched,
                      committed |-> committed1, paragraphs |-> paragraphs1,
                      skipped |-> SubSeq(draft0, 1, skipped), draft |-> draft1]
         /\ UNCHANGED translator

process_text(full_source_text, budget) ==
    \/ process_text_duplicate(full_source_text)
    \/ process_text_blank(full_source_text)
    \/ process_text_update(full_source_text, budget)

\* reset()
reset ==
    /\ committed_sources' = <<>>
    /\ committed_paragraphs' = <<>>
    /\ draft_sources' = <<>>
    /\ draft_translation' = <<>>
    /\ last_processed_text' = <<>>
    /\ tlog' = <<>>
    /\ trace' = short_path("reset", committed_sources, committed_paragraphs)
    /\ UNCHANGED <<translator, result>>

\* __init__, lines 64-83, with or without a translator
manager_init(has_translator) ==
    /\ translator = has_translator
    /\ committed_sources = <<>>
    /\ committed_paragraphs = <<>>
    /\ draft_sources = <<>>
    /\ draft_translation = <<>>
    /\ last_processed_text = <<>>
    /\ tlog = <<>>
    /\ result = build_state(<<>>, <<>>)
    /\ trace = short_path("init", <<>>, <<>>)
    /\ ncalls = 0
    /\ nfail = 0
    /\ nraise = 0

\* the fields reset() and process_text() work on, and what the model keeps of a call
mfields == <<translator, committed_sources, committed_paragraphs, draft_sources,
            draft_translation, last_processed_text, tlog, result, trace>>

(***************************************************************************)
(* StreamingAudioBuffer.  A chunk is its number of samples and what the    *)
(* voice activity detector (external) says of it.  add_audio is called by  *)
(* the capture thread, one call after the other.                           *)
(***************************************************************************)
SAMPLE_RATE == 16000
speech_pad_ms == 1              \* the speech_pad_ms the buffer is built with
min_segment_duration == 4       \* min_segment_duration, in milliseconds
max_segment_duration == 5       \* max_segment_duration, in milliseconds
MaxChunkMs == 2                 \* the longest chunk, in milliseconds
MaxGap == 2                     \* the longest time between two calls, in milliseconds
MaxAdds == 5                    \* add_audio calls in one run

None == -1
samples_per_ms == SAMPLE_RATE \div 1000
Chunks == {[samples |-> ms * samples_per_ms, speech |-> sp] :
              ms \in 0..MaxChunkMs, sp \in BOOLEAN}

\* deque(maxlen=int(SAMPLE_RATE * speech_pad_ms / 1000))
pre_buffer_maxlen == (SAMPLE_RATE * speech_pad_ms) \div 1000

no_call ==
    [op |-> "init", speech |-> FALSE, started |-> FALSE, elapsed |-> None,
     chunk |-> 0, held |-> <<>>, samples |-> 0, emitted |-> 0]

\* __init__, lines 66-95
buffer_init(vad) ==
    /\ use_vad = vad
    /\ buffer = <<>>
    /\ buffer_samples = 0
    /\ speech_started = FALSE
    /\ speech_start_time = None
    /\ silence_start_time = None
    /\ pre_buffer = 0
    /\ vad_used = FALSE
    /\ now = 0
    /\ emitted = <<>>
    /\ callbacks = 0
    /\ add_pc = "idle"
    /\ call = no_call
    /\ silence_since = None
    /\ nadds = 0

\* lines 139-141: the detector's word for the chunk, speech when there is none
is_speech(audio) == IF use_vad THEN audio.speech ELSE TRUE

\* silence_duration > speech_pad_ms / 1000, line 167, at the boundary too
silence_exceeds_pad_or_equals(current_time, silence_start) ==
    current_time - silence_start >= speech_pad_ms

\* silence_duration > speech_pad_ms / 1000, line 167
silence_exceeds_pad(current_time, silence_start) ==
    current_time - silence_start > speech_pad_ms

\* buffer_duration >= max_segment_duration taken as strictly greater
max_duration_exceeded(samples) ==
    samples * 1000 > max_segment_duration * SAMPLE_RATE

\* buffer_duration >= max_segment_duration, lines 189-190
max_duration_reached(samples) ==
    samples * 1000 >= max_segment_duration * SAMPLE_RATE

RECURSIVE buffer_samples_of(_)
buffer_samples_of(held) ==
    IF held = <<>> THEN 0 ELSE Head(held).samples + buffer_samples_of(Tail(held))

\* a segment that leaves out the chunk appended last
segment_without_tail(held, cause) ==
    [samples |-> buffer_samples_of(held),
     audio |-> IF held = <<>> THEN held ELSE SubSeq(held, 1, Len(held) - 1),
     cause |-> cause, lead_in |-> 0, pre_roll |-> pre_buffer]

\* the segment on_segment_ready gets: the flushed chunks, concatenated.
\* add_audio puts nothing before them (lead_in); pre_roll is what the
\* pre-buffer holds at that moment.
segment(held, cause) ==
    [samples |-> buffer_samples_of(held), audio |-> held, cause |-> cause,
     lead_in |-> 0, pre_roll |-> pre_buffer]

\* on_segment_ready called by add_audio itself
on_segment_ready_called == "call"

\* lines 177-181 and 198-202: on_segment_ready is the target of a new daemon
\* thread, which add_audio starts and does not join
on_segment_ready_runs == "thread"

\* where add_audio is after a hand-over: it has returned, or it is inside
\* on_segment_ready, with the lock when the hand-over is under the lock
after_hand_over(locked) ==
    IF on_segment_ready_runs = "thread" THEN "idle"
    ELSE IF locked THEN "callback_locked" ELSE "callback"

\* a chunk goes to the main buffer when it is speech only
appended_if_speech(speech, started) == speech

\* lines 144-160: a chunk goes to the main buffer when it is speech or when
\* speech has started
appended_to_buffer(speech, started) == speech \/ started

\* a hand-over that starts two threads for the segment
hand_over_twice(segments, seg) == Append(Append(segments, seg), seg)

\* lines 177-181 and 198-202: one thread is started that runs
\* on_segment_ready on the segment
hand_over(segments, seg) == Append(segments, seg)

\* _flush_buffer_unlocked and the hand-over to on_segment_ready: nothing is
\* flushed or handed over when the buffer holds no chunk
flush_and_emit(cause) ==
    IF buffer # <<>>
    THEN /\ buffer' = <<>>
         /\ buffer_samples' = 0
         /\ emitted' = hand_over(emitted, segment(buffer, cause))
         /\ callbacks' = callbacks + 1
         /\ add_pc' = after_hand_over(FALSE)
    ELSE /\ add_pc' = "idle"
         /\ UNCHANGED <<buffer, buffer_samples, emitted, callbacks>>

\* add_audio, lines 136-186: the part under the lock.  The call returns from
\* inside it when the silence ends the speech, and goes on to the check of
\* the maximum otherwise.
add_audio_locked(audio, current_time) ==
    \* lines 139-141: the detector, when there is one, is given the chunk
    \E used \in {vad_used \/ use_vad} :
    \E appended \in {appended_to_buffer(is_speech(audio), speech_started)} :
    \E buffer1 \in {IF appended THEN Append(buffer, audio) ELSE buffer} :
    \E samples1 \in {IF appended THEN buffer_samples + audio.samples ELSE buffer_samples} :
    \E silence1 \in {IF is_speech(audio) THEN None
                     ELSE IF speech_started /\ silence_start_time = None THEN current_time
                     ELSE silence_start_time} :
    \E speech_ended \in {~is_speech(audio) /\ speech_started
                            /\ silence_exceeds_pad(current_time, silence1)} :
       /\ silence_start_time' = silence1
       /\ vad_used' = used
       /\ pre_buffer' = IF ~is_speech(audio) /\ ~speech_started
                        THEN Min(pre_buffer_maxlen, pre_buffer + audio.samples)
                        ELSE pre_buffer
       /\ IF speech_ended
          THEN /\ speech_started' = FALSE
               /\ speech_start_time' = None
               /\ buffer' = <<>>
               /\ buffer_samples' = 0
               /\ emitted' = hand_over(emitted, segment(buffer1, "silence"))
               /\ callbacks' = callbacks + 1
               /\ add_pc' = after_hand_over(TRUE)
          ELSE /\ speech_started' = (speech_started \/ is_speech(audio))
               /\ speech_start_time' = IF is_speech(audio) /\ ~speech_started
                                       THEN current_time ELSE speech_start_time
               /\ buffer' = buffer1
               /\ buffer_samples' = samples1
               /\ emitted' = emitted
               /\ callbacks' = callbacks
               /\ add_pc' = "check_max"
       /\ call' = [op |-> "add_audio", speech |-> is_speech(audio),
                   started |-> speech_started,
                   elapsed |-> IF is_speech(audio) THEN None
                               ELSE IF silence_since = None THEN 0
                               ELSE current_time - silence_since,
                   chunk |-> audio.samples, held |-> buffer1, samples |-> samples1,
                   emitted |-> Len(emitted)]
       /\ UNCHANGED use_vad

\* add_audio, lines 188-203: the check of the maximum, outside the lock
add_audio_check_max ==
    /\ add_pc = "check_max"
    /\ IF max_duration_reached(buffer_samples)
       THEN /\ speech_started' = FALSE
            /\ speech_start_time' = None
            /\ flush_and_emit("max")
       ELSE /\ add_pc' = "idle"
            /\ UNCHANGED <<speech_started, speech_start_time, buffer, buffer_samples,
                           emitted, callbacks>>
    /\ UNCHANGED <<use_vad, silence_start_time, pre_buffer, vad_used, now, call,
                   silence_since, nadds>>
    /\ UNCHANGED <<mvars, pvars, rvars>>

\* reset() that leaves the pre-buffer as it is
buffer_reset_keeping_pre_buffer ==
    /\ buffer' = <<>>
    /\ buffer_samples' = 0
    /\ speech_started' = FALSE
    /\ speech_start_time' = None
    /\ silence_start_time' = None
    /\ vad_used' = FALSE
    /\ UNCHANGED <<use_vad, emitted, callbacks, pre_buffer>>

\* reset(), lines 210-221: the fields under the lock, then the detector
buffer_reset ==
    /\ buffer' = <<>>
    /\ buffer_samples' = 0
    /\ speech_started' = FALSE
    /\ speech_start_time' = None
    /\ silence_start_time' = None
    /\ pre_buffer' = 0
    /\ vad_used' = FALSE
    /\ UNCHANGED <<use_vad, emitted, callbacks>>

\* the capture thread calls add_audio gap milliseconds after the call before
call_add_audio(audio, gap) ==
    /\ add_pc = "idle"
    /\ nadds < MaxAdds
    /\ nadds' = nadds + 1
    /\ now' = now + gap
    /\ add_audio_locked(audio, now + gap)
    /\ silence_since' = IF is_speech(audio) THEN None
                        ELSE IF silence_since = None THEN now + gap
                        ELSE silence_since
    /\ UNCHANGED <<mvars, pvars, rvars>>

\* an on_segment_ready call returns; add_audio goes on if it was inside it
on_segment_ready_returns ==
    /\ callbacks > 0
    /\ callbacks' = callbacks - 1
    /\ add_pc' = IF add_pc \in {"callback", "callback_locked"} THEN "idle" ELSE add_pc
    /\ UNCHANGED <<use_vad, buffer, buffer_samples, speech_started, speech_start_time,
                   silence_start_time, pre_buffer, vad_used, now, emitted, call,
                   silence_since, nadds>>
    /\ UNCHANGED <<mvars, pvars, rvars>>

\* the owner calls reset, from its own thread; reset waits for the lock
call_buffer_reset ==
    /\ call.op # "reset"
    /\ add_pc # "callback_locked"
    /\ buffer_reset
    /\ call' = [no_call EXCEPT !.op = "reset", !.started = speech_started,
                                !.held = buffer, !.samples = pre_buffer]
    /\ silence_since' = None
    /\ UNCHANGED <<now, nadds, add_pc>>
    /\ UNCHANGED <<mvars, pvars, rvars>>

(***************************************************************************)
(* RealtimePipeline: every segment its buffer emits is handed to            *)
(* _on_audio_segment in a thread of its own; _transcription_loop is the one *)
(* thread that gets from the queue.                                         *)
(***************************************************************************)
MaxSegments == 5    \* segments the buffer emits in one run

SegmentIds == 1..MaxSegments

\* queue.Queue(maxsize=3), line 139
queue_maxsize == 3

\* __init__, lines 136-141, with the loop as start() starts it
realtime_init ==
    /\ emissions = 0
    /\ deliver = [i \in SegmentIds |-> "unborn"]
    /\ transcription_queue = <<>>
    /\ dropped_segments = 0
    /\ transcription = [pc |-> "get", audio |-> 0]

\* the buffer emits one more segment: a thread with target on_segment_ready
\* is started (buffer.py, lines 177-181 and 198-202)
segment_ready ==
    /\ emissions < MaxSegments
    /\ emissions' = emissions + 1
    /\ deliver' = [deliver EXCEPT ![emissions + 1] = "started"]
    /\ UNCHANGED <<transcription_queue, dropped_segments, transcription>>
    /\ UNCHANGED <<mvars, pvars, bvars>>

\* the thread runs: _on_audio_segment is entered, line 208
on_audio_segment_called(i) ==
    /\ deliver[i] = "started"
    /\ deliver' = [deliver EXCEPT ![i] = "put"]
    /\ UNCHANGED <<emissions, transcription_queue, dropped_segments, transcription>>
    /\ UNCHANGED <<mvars, pvars, bvars>>

\* put_nowait succeeds: the queue holds fewer than maxsize items
has_room(q) == Len(q) < queue_maxsize

\* line 213: put_nowait, or queue.Full
on_audio_segment_put(i) ==
    /\ deliver[i] = "put"
    /\ IF has_room(transcription_queue)
       THEN /\ transcription_queue' = Append(transcription_queue, i)
            /\ deliver' = [deliver EXCEPT ![i] = "done"]
       ELSE /\ deliver' = [deliver EXCEPT ![i] = "full"]
            /\ UNCHANGED transcription_queue
    /\ UNCHANGED <<emissions, dropped_segments, transcription>>
    /\ UNCHANGED <<mvars, pvars, bvars>>

\* line 217: get_nowait removes the oldest segment; queue.Empty is caught at
\* lines 222-223 and the new segment is given up
on_audio_segment_drop(i) ==
    /\ deliver[i] = "full"
    /\ IF transcription_queue # <<>>
       THEN /\ transcription_queue' = Tail(transcription_queue)
            /\ deliver' = [deliver EXCEPT ![i] = "put_again"]
       ELSE /\ deliver' = [deliver EXCEPT ![i] = "given_up"]
            /\ UNCHANGED transcription_queue
    /\ UNCHANGED <<emissions, dropped_segments, transcription>>
    /\ UNCHANGED <<mvars, pvars, bvars>>

\* lines 218-221: put_nowait again and count the drop; queue.Full is not
\* caught by the except of line 222 and leaves _on_audio_segment
on_audio_segment_put_again(i) ==
    /\ deliver[i] = "put_again"
    /\ IF has_room(transcription_queue)
       THEN /\ transcription_queue' = Append(transcription_queue, i)
            /\ dropped_segments' = dropped_segments + 1
            /\ deliver' = [deliver EXCEPT ![i] = "done"]
       ELSE /\ deliver' = [deliver EXCEPT ![i] = "raised"]
            /\ UNCHANGED <<transcription_queue, dropped_segments>>
    /\ UNCHANGED <<emissions, transcription>>
    /\ UNCHANGED <<mvars, pvars, bvars>>

\* _transcription_loop, lines 228-231: get a segment, or time out
transcription_loop_get ==
    /\ transcription.pc = "get"
    /\ transcription_queue # <<>>
    /\ transcription' = [pc |-> "check", audio |-> Head(transcription_queue)]
    /\ transcription_queue' = Tail(transcription_queue)
    /\ UNCHANGED <<emissions, deliver, dropped_segments>>
    /\ UNCHANGED <<mvars, pvars, bvars>>

\* lines 234-237: the segment is skipped when two or more are queued behind it
transcription_loop_check ==
    /\ transcription.pc = "check"
    /\ transcription' = [transcription EXCEPT
                            !.pc = IF Len(transcription_queue) >= 2 THEN "get"
                                   ELSE "transcribe"]
    /\ UNCHANGED <<emissions, deliver, transcription_queue, dropped_segments>>
    /\ UNCHANGED <<mvars, pvars, bvars>>

\* lines 239-280: the segment is too short, or it is transcribed, translated
\* and shown; an exception is logged
transcription_loop_transcribe ==
    /\ transcription.pc = "transcribe"
    /\ transcription' = [transcription EXCEPT !.pc = "get"]
    /\ UNCHANGED <<emissions, deliver, transcription_queue, dropped_segments>>
    /\ UNCHANGED <<mvars, pvars, bvars>>

(***************************************************************************)
(* StreamingPipeline: the caller of start() and stop(), the audio capture  *)
(* callback, and the ASR and translation threads each start() creates.     *)
(* A thread that outlives the join timeout of stop() stays in the model.   *)
(***************************************************************************)
MaxStarts == 2      \* start() calls that create threads
MaxChunks == 3      \* audio chunks the capture delivers
MaxHyp == 2         \* distinct non-empty texts of the recognizer

Threads == 1..MaxStarts
Hyps == 0..MaxHyp
Nobody == <<"nobody", 0>>
asr_thread(g) == <<"asr", g>>
tr_thread(g) == <<"tr", g>>

pipeline_ghosts == <<chunks, starts, writes, slot_write, unread, last_passed>>

\* the subtitle sink before the first event, and SubtitleEvent(text=...,
\* committed_translation=..., draft_translation=...) as the sink gets it
NoEvent == [event |-> "none"]
SubtitleEvent(text, state) == [text |-> text, state |-> state]

\* __init__, lines 128-137
pipeline_init(has_state_manager) ==
    /\ state_manager = has_state_manager
    /\ running = FALSE
    /\ capturing = FALSE
    /\ audio_queue = <<>>
    /\ latest_raw_text = 0
    /\ new_text_event = FALSE
    /\ text_lock = Nobody
    /\ process_thread = 0
    /\ translation_thread = 0
    /\ asr = [g \in Threads |-> [pc |-> "unborn", raw_text |-> 0]]
    /\ tr = [g \in Threads |-> [pc |-> "unborn", raw_text |-> 0, write |-> 0,
                               covered |-> <<>>]]
    /\ ctl = "idle"
    /\ chunks = 0
    /\ starts = 0
    /\ writes = 0
    /\ slot_write = 0
    /\ unread = <<>>
    /\ last_passed = 0
    /\ subtitle = NoEvent
    /\ stream_from = 0
    /\ last_sent_text = <<>>

\* queue.Queue() of line 130: maxsize 0, a queue without a capacity
maxsize == 0

\* Queue.full(): never, for a queue without a capacity
full(q) == maxsize > 0 /\ Len(q) >= maxsize

\* _on_audio: the capture puts one chunk; put() would wait on a full queue
on_audio ==
    /\ capturing
    /\ chunks < MaxChunks
    /\ ~full(audio_queue)
    /\ chunks' = chunks + 1
    /\ audio_queue' = Append(audio_queue, chunks + 1)
    /\ UNCHANGED <<state_manager, running, capturing, latest_raw_text, new_text_event,
                   text_lock, process_thread, translation_thread, asr, tr, ctl,
                   starts, writes, slot_write, unread, last_passed, subtitle,
                   last_sent_text, stream_from>>
    /\ UNCHANGED <<mvars, bvars, rvars>>

\* _process_loop, line 155: while self._running
process_loop_running(g) ==
    /\ asr[g].pc = "loop"
    /\ asr' = [asr EXCEPT ![g].pc = IF running THEN "get" ELSE "done"]
    /\ UNCHANGED <<state_manager, running, capturing, audio_queue, latest_raw_text,
                   new_text_event, text_lock, process_thread, translation_thread, tr,
                   ctl, pipeline_ghosts, subtitle, last_sent_text, stream_from>>
    /\ UNCHANGED <<mvars, bvars, rvars>>

\* the stream of the transcriber after process_audio fed it a chunk in the
\* given session: the audio adds to what the stream holds, and nothing in the
\* pipeline calls the transcriber's reset()
stream_after(stream, session) == IF stream = 0 THEN session ELSE stream

\* lines 156-163: get a chunk and hand it to the transcriber, or time out
process_loop_get(g) ==
    /\ asr[g].pc = "get"
    /\ IF audio_queue # <<>>
       THEN /\ audio_queue' = Tail(audio_queue)
            /\ asr' = [asr EXCEPT ![g].pc = "recognize"]
            /\ stream_from' = stream_after(stream_from, starts)
       ELSE /\ asr' = [asr EXCEPT ![g].pc = "loop"]
            /\ UNCHANGED <<audio_queue, stream_from>>
    /\ UNCHANGED <<state_manager, running, capturing, latest_raw_text, new_text_event,
                   text_lock, process_thread, translation_thread, tr, ctl,
                   pipeline_ghosts, subtitle, last_sent_text>>
    /\ UNCHANGED <<mvars, bvars, rvars>>

\* lines 163-168: process_audio returns raw_text, which is dropped when empty
\* or equal to the slot as read without the lock
process_loop_recognized(g, raw_text) ==
    /\ asr[g].pc = "recognize"
    /\ asr' = [asr EXCEPT ![g] =
                  [pc |-> IF raw_text = 0 \/ raw_text = latest_raw_text
                          THEN "loop" ELSE "write",
                   raw_text |-> raw_text]]
    /\ UNCHANGED <<state_manager, running, capturing, audio_queue, latest_raw_text,
                   new_text_event, text_lock, process_thread, translation_thread, tr,
                   ctl, pipeline_ghosts, subtitle, last_sent_text, stream_from>>
    /\ UNCHANGED <<mvars, bvars, rvars>>

\* line 163: process_audio raises; nothing in the loop catches it
process_loop_raised(g) ==
    /\ asr[g].pc = "recognize"
    /\ asr' = [asr EXCEPT ![g].pc = "dead"]
    /\ UNCHANGED <<state_manager, running, capturing, audio_queue, latest_raw_text,
                   new_text_event, text_lock, process_thread, translation_thread, tr,
                   ctl, pipeline_ghosts, subtitle, last_sent_text, stream_from>>
    /\ UNCHANGED <<mvars, bvars, rvars>>

\* a with block that is left with the lock still held
lock_kept(holder) == holder

\* the end of a "with self._text_lock:" block (lines 173 and 206): the
\* thread that held the lock has released it
lock_released(holder) == Nobody

\* the slot after raw_text is written to it
slot_after_write(slot, raw_text) == raw_text

\* lines 171-172: take the lock and write the slot
process_loop_write(g) ==
    /\ asr[g].pc = "write"
    /\ text_lock = Nobody
    /\ text_lock' = asr_thread(g)
    /\ latest_raw_text' = slot_after_write(latest_raw_text, asr[g].raw_text)
    /\ writes' = writes + 1
    /\ slot_write' = IF latest_raw_text' = asr[g].raw_text THEN writes + 1 ELSE slot_write
    /\ unread' = Append(unread, [write |-> writes + 1, text |-> asr[g].raw_text])
    /\ asr' = [asr EXCEPT ![g].pc = "signal"]
    /\ UNCHANGED <<state_manager, running, capturing, audio_queue, new_text_event,
                   process_thread, translation_thread, tr, ctl, chunks, starts,
                   last_passed, subtitle, last_sent_text, stream_from>>
    /\ UNCHANGED <<mvars, bvars, rvars>>

\* a write of the slot that leaves the event as it is
event_left(event) == event

\* self._new_text_event.set()
event_set(event) == TRUE

\* line 173: set the event and leave the lock
process_loop_signal(g) ==
    /\ asr[g].pc = "signal"
    /\ new_text_event' = event_set(new_text_event)
    /\ text_lock' = lock_released(text_lock)
    /\ asr' = [asr EXCEPT ![g].pc = IF state_manager THEN "loop" ELSE "emit"]
    /\ UNCHANGED <<state_manager, running, capturing, audio_queue, latest_raw_text,
                   process_thread, translation_thread, tr, ctl,
                   pipeline_ghosts, subtitle, last_sent_text, stream_from>>
    /\ UNCHANGED <<mvars, bvars, rvars>>

\* lines 177-189: without a state manager the raw text is emitted here, with
\* empty translations
process_loop_emit(g) ==
    /\ asr[g].pc = "emit"
    /\ asr' = [asr EXCEPT ![g].pc = "loop"]
    /\ subtitle' = SubtitleEvent(asr[g].raw_text, build_state(<<>>, <<>>))
    /\ UNCHANGED <<state_manager, running, capturing, audio_queue, latest_raw_text,
                   new_text_event, text_lock, process_thread, translation_thread, tr,
                   ctl, pipeline_ghosts, last_sent_text, stream_from>>
    /\ UNCHANGED <<mvars, bvars, rvars>>

\* _translation_loop, line 197: while self._running
translation_loop_running(g) ==
    /\ tr[g].pc = "loop"
    /\ tr' = [tr EXCEPT ![g].pc = IF running THEN "wait" ELSE "done"]
    /\ UNCHANGED <<state_manager, running, capturing, audio_queue, latest_raw_text,
                   new_text_event, text_lock, process_thread, translation_thread, asr,
                   ctl, pipeline_ghosts, subtitle, last_sent_text, stream_from>>
    /\ UNCHANGED <<mvars, bvars, rvars>>

\* lines 199-200: wait for the event, or time out
translation_loop_wait(g) ==
    /\ tr[g].pc = "wait"
    /\ tr' = [tr EXCEPT ![g].pc = IF new_text_event THEN "take" ELSE "loop"]
    /\ UNCHANGED <<state_manager, running, capturing, audio_queue, latest_raw_text,
                   new_text_event, text_lock, process_thread, translation_thread, asr,
                   ctl, pipeline_ghosts, subtitle, last_sent_text, stream_from>>
    /\ UNCHANGED <<mvars, bvars, rvars>>

\* the slot read as the head of a queue of the writes not yet taken
slot_read_oldest(slot, writes_unread) ==
    IF writes_unread # <<>> THEN writes_unread[1] ELSE slot

\* what the translation thread reads from the slot
slot_read(slot, writes_unread) == slot

\* lines 203-205: take the lock and read the slot
translation_loop_take(g) ==
    /\ tr[g].pc = "take"
    /\ text_lock = Nobody
    /\ text_lock' = tr_thread(g)
    /\ \E taken \in {slot_read([write |-> slot_write, text |-> latest_raw_text], unread)} :
          tr' = [tr EXCEPT ![g] = [pc |-> "clear", raw_text |-> taken.text,
                                   write |-> taken.write, covered |-> unread]]
    /\ unread' = <<>>
    /\ UNCHANGED <<state_manager, running, capturing, audio_queue, latest_raw_text,
                   new_text_event, process_thread, translation_thread, asr, ctl,
                   chunks, starts, writes, slot_write, last_passed, subtitle,
                   last_sent_text, stream_from>>
    /\ UNCHANGED <<mvars, bvars, rvars>>

\* lines 206-209: clear the event, leave the lock, skip an empty text
translation_loop_clear(g) ==
    /\ tr[g].pc = "clear"
    /\ new_text_event' = FALSE
    /\ text_lock' = lock_released(text_lock)
    /\ tr' = [tr EXCEPT ![g].pc =
                 IF tr[g].raw_text = 0 \/ ~state_manager THEN "loop" ELSE "call"]
    /\ UNCHANGED <<state_manager, running, capturing, audio_queue, latest_raw_text,
                   process_thread, translation_thread, asr, ctl,
                   pipeline_ghosts, subtitle, last_sent_text, stream_from>>
    /\ UNCHANGED <<mvars, bvars, rvars>>

\* line 213: raw_text is passed to process_text
translation_loop_call(g) ==
    /\ tr[g].pc = "call"
    /\ tr' = [tr EXCEPT ![g].pc = "process"]
    /\ last_passed' = tr[g].write
    /\ UNCHANGED <<state_manager, running, capturing, audio_queue, latest_raw_text,
                   new_text_event, text_lock, process_thread, translation_thread, asr,
                   ctl, chunks, starts, writes, slot_write, unread, subtitle,
                   last_sent_text, stream_from>>
    /\ UNCHANGED <<mvars, bvars, rvars>>

\* lines 213-227: process_text returns and the event is emitted; what the
\* manager does in the call is left out here
translation_loop_emit(g) ==
    /\ tr[g].pc = "process"
    /\ tr' = [tr EXCEPT ![g].pc = "loop"]
    /\ subtitle' = SubtitleEvent(tr[g].raw_text, result)
    /\ UNCHANGED <<state_manager, running, capturing, audio_queue, latest_raw_text,
                   new_text_event, text_lock, process_thread, translation_thread, asr,
                   ctl, pipeline_ghosts, last_sent_text, stream_from>>
    /\ UNCHANGED <<mvars, bvars, rvars>>

\* start(), when not running: the slot and the event are reset without the
\* lock, the state manager is reset, new threads are created
start ==
    /\ ctl = "idle"
    /\ ~running
    /\ starts < MaxStarts
    /\ starts' = starts + 1
    /\ running' = TRUE
    /\ latest_raw_text' = 0
    /\ new_text_event' = FALSE
    /\ slot_write' = 0
    /\ unread' = <<>>
    /\ IF state_manager THEN reset ELSE UNCHANGED mfields
    /\ asr' = [asr EXCEPT ![starts + 1].pc = "loop"]
    /\ process_thread' = starts + 1
    /\ IF state_manager
       THEN /\ tr' = [tr EXCEPT ![starts + 1].pc = "loop"]
            /\ translation_thread' = starts + 1
       ELSE UNCHANGED <<tr, translation_thread>>
    /\ capturing' = TRUE
    /\ UNCHANGED <<state_manager, audio_queue, text_lock, ctl, chunks, writes,
                   last_passed, subtitle, last_sent_text, stream_from, ncalls,
                   nfail, nraise>>
    /\ UNCHANGED <<bvars, rvars>>

\* stop() that clears the flag and leaves the event as it is
stop_begin_without_wake ==
    /\ ctl = "idle"
    /\ running' = FALSE
    /\ capturing' = FALSE
    /\ ctl' = "joining"
    /\ UNCHANGED <<state_manager, audio_queue, latest_raw_text, text_lock, new_text_event,
                   process_thread, translation_thread, asr, tr,
                   pipeline_ghosts, subtitle, last_sent_text, stream_from>>
    /\ UNCHANGED <<mvars, bvars, rvars>>

\* stop(), lines 269-272: clear the flag, set the event, stop the capture
stop_begin ==
    /\ ctl = "idle"
    /\ running' = FALSE
    /\ new_text_event' = TRUE
    /\ capturing' = FALSE
    /\ ctl' = "joining"
    /\ UNCHANGED <<state_manager, audio_queue, latest_raw_text, text_lock,
                   process_thread, translation_thread, asr, tr,
                   pipeline_ghosts, subtitle, last_sent_text, stream_from>>
    /\ UNCHANGED <<mvars, bvars, rvars>>

\* join(timeout=2.0) returns: the thread ended, or it is still inside the
\* transcriber, the translator or the subtitle callback after two seconds
asr_joined(g) ==
    IF g = 0 THEN TRUE ELSE asr[g].pc \in {"done", "dead", "recognize", "emit"}
tr_joined(g) ==
    IF g = 0 THEN TRUE ELSE tr[g].pc \in {"done", "process"}

\* stop(), lines 274-287: both joins return, the queue is emptied
stop_join ==
    /\ ctl = "joining"
    /\ asr_joined(process_thread)
    /\ tr_joined(translation_thread)
    /\ audio_queue' = <<>>
    /\ ctl' = "idle"
    /\ UNCHANGED <<state_manager, running, capturing, latest_raw_text, new_text_event,
                   text_lock, process_thread, translation_thread, asr, tr,
                   pipeline_ghosts, subtitle, last_sent_text, stream_from>>
    /\ UNCHANGED <<mvars, bvars, rvars>>

PipelineInit ==
    /\ \E has_state_manager \in BOOLEAN : pipeline_init(has_state_manager)
    /\ manager_init(TRUE)
    /\ buffer_init(TRUE)
    /\ realtime_init

PipelineNext ==
    \/ on_audio
    \/ \E g \in Threads : process_loop_running(g)
    \/ \E g \in Threads : process_loop_get(g)
    \/ \E g \in Threads, raw_text \in Hyps :
          process_loop_recognized(g, raw_text)
    \/ \E g \in Threads : process_loop_raised(g)
    \/ \E g \in Threads : process_loop_write(g)
    \/ \E g \in Threads : process_loop_signal(g)
    \/ \E g \in Threads : process_loop_emit(g)
    \/ \E g \in Threads : translation_loop_running(g)
    \/ \E g \in Threads : translation_loop_wait(g)
    \/ \E g \in Threads : translation_loop_take(g)
    \/ \E g \in Threads : translation_loop_clear(g)
    \/ \E g \in Threads : translation_loop_call(g)
    \/ \E g \in Threads : translation_loop_emit(g)
    \/ start
    \/ stop_begin
    \/ stop_join

SpecPipeline == PipelineInit /\ [][PipelineNext]_vars

\* the steps of one _process_loop thread and of one _translation_loop thread
process_loop(g) ==
    \/ process_loop_running(g)
    \/ process_loop_get(g)
    \/ \E raw_text \in Hyps : process_loop_recognized(g, raw_text)
    \/ process_loop_raised(g)
    \/ process_loop_write(g)
    \/ process_loop_signal(g)
    \/ process_loop_emit(g)

translation_loop(g) ==
    \/ translation_loop_running(g)
    \/ translation_loop_wait(g)
    \/ translation_loop_take(g)
    \/ translation_loop_clear(g)
    \/ translation_loop_call(g)
    \/ translation_loop_emit(g)

\* the pipeline with threads that are scheduled again and again, whose waits
\* time out, and whose transcriber, translator and subtitle callback return
SpecPipelineLive ==
    /\ SpecPipeline
    /\ \A g \in Threads : WF_vars(process_loop(g)) /\ WF_vars(translation_loop(g))

\* RealtimePipeline with its buffer emitting segments and its loop running
RealtimeInit ==
    /\ realtime_init
    /\ manager_init(TRUE)
    /\ buffer_init(TRUE)
    /\ pipeline_init(TRUE)

RealtimeNext ==
    \/ segment_ready
    \/ \E i \in SegmentIds : on_audio_segment_called(i)
    \/ \E i \in SegmentIds : on_audio_segment_put(i)
    \/ \E i \in SegmentIds : on_audio_segment_drop(i)
    \/ \E i \in SegmentIds : on_audio_segment_put_again(i)
    \/ transcription_loop_get
    \/ transcription_loop_check
    \/ transcription_loop_transcribe

SpecRealtime == RealtimeInit /\ [][RealtimeNext]_vars

(***************************************************************************)
(* The manager on its own: any sequence of process_text and reset calls    *)
(***************************************************************************)
ManagerInit ==
    /\ \E has_translator \in BOOLEAN : manager_init(has_translator)
    /\ pipeline_init(TRUE)
    /\ buffer_init(TRUE)
    /\ realtime_init


\* one more process_text call, from the session's caller
call_process_text(t) ==
    /\ ncalls < MaxCalls
    /\ ncalls' = ncalls + 1
    /\ process_text(t, MaxFail - nfail)
    /\ nfail' = nfail + failures(tlog')
    /\ nraise' = nraise + raises(tlog')
    /\ UNCHANGED <<pvars, bvars, rvars>>

call_reset ==
    /\ reset
    /\ UNCHANGED <<ncalls, nfail, nraise>>
    /\ UNCHANGED <<pvars, bvars, rvars>>

ManagerNext ==
    \/ \E t \in Texts : call_process_text(t)
    \/ call_reset

SpecManager == ManagerInit /\ [][ManagerNext]_vars

\* the buffer on its own: its owner calls add_audio and reset
BufferInit ==
    /\ \E vad \in BOOLEAN : buffer_init(vad)
    /\ realtime_init
    /\ manager_init(TRUE)
    /\ pipeline_init(TRUE)

BufferNext ==
    \/ \E audio \in Chunks, gap \in 0..MaxGap : call_add_audio(audio, gap)
    \/ add_audio_check_max
    \/ on_segment_ready_returns
    \/ call_buffer_reset

SpecBuffer == BufferInit /\ [][BufferNext]_vars

\* the two components that have a reset(), side by side in one session: a few
\* process_text calls on short transcripts and a few add_audio calls, with
\* resets of either at any point
ResetTexts == {transcript(1, hi, 0, "similar") : hi \in {2, DRAFT_COMMIT_THRESHOLD}}
ResetAdds == 3       \* add_audio calls in one run of the two components
ResetCalls == 2      \* process_text calls in one run of the two components

\* the manager with a translator that may fail at every call: a transcript
\* that grows, and comes back with its third or its first sentence changed
FailTexts ==
    { transcript(1, hi, 0, "similar") : hi \in {2, DRAFT_COMMIT_THRESHOLD, DRAFT_COMMIT_THRESHOLD + 1} }
    \cup { transcript(1, COMMIT_COUNT + 1, k, "different") : k \in {1, MaxRev} }

\* the translator calls one process_text call makes at most
CallsPerUpdate == 4

call_process_text_failing(t) ==
    /\ ncalls < MaxCalls
    /\ ncalls' = ncalls + 1
    /\ process_text(t, CallsPerUpdate)
    /\ nfail' = nfail + failures(tlog')
    /\ nraise' = nraise + raises(tlog')
    /\ UNCHANGED <<pvars, bvars, rvars>>

FailuresNext ==
    \/ \E t \in FailTexts : call_process_text_failing(t)
    \/ call_reset

SpecFailures == ManagerInit /\ [][FailuresNext]_vars

\* the manager fed by a source that only appends: the sentences of each text
\* are those of the text before it, with zero or more sentences after them
IsExtension(sentences, earlier) ==
    /\ Len(earlier) <= Len(sentences)
    /\ SubSeq(sentences, 1, Len(earlier)) = earlier

call_process_text_appended(t) ==
    /\ IsExtension(segmented(t), segmented(last_processed_text))
    /\ call_process_text(t)

AppendOnlyNext == \E t \in Texts : call_process_text_appended(t)

SpecAppendOnly == ManagerInit /\ [][AppendOnlyNext]_vars

(***************************************************************************)
(* What reaches the subtitle sink when the translator fails: the body of   *)
(* _translation_loop for one consumer thread, the manager's translator     *)
(* failing at will, and LiveCaptionsPipeline._on_caption.                  *)
(***************************************************************************)
\* _translation_loop, lines 208-229, for the raw_text the thread took: an
\* empty text is skipped; process_text is called and the event is emitted with
\* the state it returns; an exception leaving process_text is logged, no
\* event is emitted, and the loop goes on
translation_loop_process(raw_text) ==
    /\ raw_text # <<>>
    /\ ncalls < MaxCalls
    /\ ncalls' = ncalls + 1
    /\ process_text(raw_text, CallsPerUpdate)
    /\ nfail' = nfail + failures(tlog')
    /\ nraise' = nraise + raises(tlog')
    /\ subtitle' = IF result' = Exception THEN subtitle
                   ELSE SubtitleEvent(raw_text, result')
    /\ UNCHANGED <<state_manager, running, capturing, audio_queue, latest_raw_text,
                   new_text_event, text_lock, process_thread, translation_thread, asr,
                   tr, ctl, pipeline_ghosts, last_sent_text, stream_from>>
    /\ UNCHANGED <<bvars, rvars>>

\* the placeholder texts of LiveCaptions, lines 110-117; a character outside
\* ASCII is written as its code point
initial_texts ==
    { <<"U+5373", "U+6642", "U+8F14", "U+52A9", "U+5B57", "U+5E55">>,
      <<"U+5B9E", "U+65F6", "U+8F85", "U+52A9", "U+5B57", "U+5E55">>,
      <<"R", "e", "a", "d", "y", " ", "f", "o", "r", " ", "l", "i", "v", "e", " ", "s", "u", "b", "t", "i", "t", "l", "e", "s">>,
      <<"L", "i", "v", "e", " ", "c", "a", "p", "t", "i", "o", "n", "s">>,
      <<"U+6E96", "U+5099", "U+597D", "U+5373", "U+6642", "U+8F14", "U+52A9", "U+5B57", "U+5E55">>,
      <<"U+51C6", "U+5907", "U+597D", "U+5B9E", "U+65F6", "U+8F85", "U+52A9", "U+5B57", "U+5E55">> }

\* initial_text in caption.text
contains(text, sub) ==
    \E i \in 0..(Len(text) - Len(sub)) : SubSeq(text, i + 1, i + Len(sub)) = sub

\* the captions the monitor reports: a transcript that grows, and placeholders
CaptionTexts ==
    { transcript(1, hi, 0, "similar") : hi \in 1..3 }
    \cup { <<"L", "i", "v", "e", " ", "c", "a", "p", "t", "i", "o", "n", "s">>,
           <<"L", "i", "v", "e", " ", "c", "a", "p", "t", "i", "o", "n", "s">> \o <<".", " ">> \o sentence(1),
           <<"U+5373", "U+6642", "U+8F14", "U+52A9", "U+5B57", "U+5E55">> }

\* translated_text: None when the translator is not set or raises
translated_text(has_translator, text, outcome) ==
    IF has_translator /\ outcome # "raise"
    THEN [translated_text |-> translated_or_empty(text, outcome)]
    ELSE [translated_text |-> None]

\* LiveCaptionsPipeline._on_caption, lines 107-154: placeholders and repeated
\* texts are skipped; the text is translated if a translator is set, and the
\* event is sent with or without a translation
on_caption(text, outcome) ==
    /\ outcome \in outcomes_of(translator, 1)
    /\ IF (\E initial_text \in initial_texts : contains(text, initial_text))
          \/ text = last_sent_text
       THEN /\ outcome \in {"none", "ok"}
            /\ tlog' = <<>>
            /\ UNCHANGED <<subtitle, last_sent_text>>
       ELSE /\ tlog' = log_entry("caption", text, outcome)
            /\ subtitle' = SubtitleEvent(text, translated_text(translator, text, outcome))
            /\ last_sent_text' = text
    /\ UNCHANGED <<translator, committed_sources, committed_paragraphs, draft_sources,
                   draft_translation, last_processed_text, result, trace, ncalls,
                   nfail, nraise>>
    /\ UNCHANGED <<state_manager, running, capturing, audio_queue, latest_raw_text,
                   new_text_event, text_lock, process_thread, translation_thread, asr,
                   tr, ctl, pipeline_ghosts, stream_from>>
    /\ UNCHANGED <<bvars, rvars>>

DeliveryNext ==
    \/ \E raw_text \in FailTexts \cup {<<>>, <<" ", " ">>} :
          translation_loop_process(raw_text)
    \/ \E text \in CaptionTexts, outcome \in Outcomes \cup {"none"} :
          on_caption(text, outcome)

SpecDelivery == ManagerInit /\ [][DeliveryNext]_vars

ResetInit ==
    /\ \E has_translator \in BOOLEAN : manager_init(has_translator)
    /\ \E vad \in BOOLEAN : buffer_init(vad)
    /\ realtime_init
    /\ pipeline_init(TRUE)

ResetNext ==
    \/ \E t \in ResetTexts : ncalls < ResetCalls /\ call_process_text(t)
    \/ call_reset
    \/ \E audio \in Chunks, gap \in 0..MaxGap : nadds < ResetAdds /\ call_add_audio(audio, gap)
    \/ add_audio_check_max
    \/ on_segment_ready_returns
    \/ call_buffer_reset

SpecReset == ResetInit /\ [][ResetNext]_vars

(***************************************************************************)
(* Properties of the manager                                               *)
(***************************************************************************)
Range(seq) == {seq[i] : i \in 1..Len(seq)}
IsPrefix(p, seq) == Len(p) <= Len(seq) /\ SubSeq(seq, 1, Len(p)) = p

\* the latest operation on the manager was a process_text call
AfterCall == trace.path \in {"duplicate", "blank", "update"}

\* this step is a process_text call
IsCall == ncalls' = ncalls + 1

\* C1: a process_text call with the string of the call before it returns the
\* state that call returned, makes no translator call and changes no field of
\* the manager.
C1_Idempotent ==
    [][(IsCall /\ AfterCall /\ last_processed_text' = last_processed_text)
          => /\ result' = result
             /\ tlog' = <<>>
             /\ UNCHANGED <<committed_sources, committed_paragraphs, draft_sources,
                            draft_translation, last_processed_text>>]_vars

\* a repeated call on a manager that holds paragraphs and a draft translation
C1_Witness ==
    /\ trace.path = "duplicate"
    /\ ncalls >= 2
    /\ committed_paragraphs # <<>>
    /\ draft_translation # <<>>

\* C2: after every process_text call the draft holds at most
\* MAX_DRAFT_SENTENCES source sentences.
C2_DraftBounded == Len(draft_sources) <= MAX_DRAFT_SENTENCES

\* a call whose unmatched span was longer than the cap, so its oldest
\* sentences were force-committed
C2_Witness ==
    /\ trace.path = "update"
    /\ trace.skipped # <<>>
    /\ draft_sources # <<>>

\* the number of leading positions at which committed and sentences match
RECURSIVE LeadingMatches(_, _, _)
LeadingMatches(committed, sentences, n) ==
    IF n >= Len(committed) \/ n >= Len(sentences) THEN n
    ELSE IF fuzzy_match(committed[n + 1], sentences[n + 1])
         THEN LeadingMatches(committed, sentences, n + 1)
    ELSE n

\* C5: a process_text call leaves the committed sources either as the list
\* before the call extended with sentences of its input, or as the prefix of
\* that list that matched the input position by position, extended with
\* sentences of its input; so every committed source sentence is a sentence
\* of some input received so far.
C5_Monotone ==
    AfterCall =>
        \E sentences \in {segment_sentences(last_processed_text)} :
        \E n \in {LeadingMatches(trace.entry, sentences, 0)} :
        \E kept \in {trace.entry, SubSeq(trace.entry, 1, n)} :
           /\ IsPrefix(kept, committed_sources)
           /\ \A i \in (Len(kept) + 1)..Len(committed_sources) :
                  committed_sources[i] \in Range(sentences)

\* a call that trimmed the committed sources to a matched prefix that is not empty
C5_Witness ==
    /\ trace.path = "update"
    /\ trace.trimmed
    /\ trace.matched > 0
    /\ IsPrefix(trace.committed, committed_sources)

\* C6: the manager never holds more committed paragraphs than committed
\* source sentences.
C6_ParagraphsWithinSources == Len(committed_paragraphs) <= Len(committed_sources)

\* the outcome of the translator call of the given kind in the latest call
outcome_of(kind) ==
    IF \E i \in 1..Len(tlog) : tlog[i].kind = kind
    THEN tlog[CHOOSE i \in 1..Len(tlog) : tlog[i].kind = kind].outcome
    ELSE "none"

\* the text handed to the translator call of the given kind in the latest call
text_of(kind) == tlog[CHOOSE i \in 1..Len(tlog) : tlog[i].kind = kind].text

DivergedAfter(sentences, n) ==
    /\ trace.path = "update"
    /\ n = LeadingMatches(trace.entry, sentences, 0)
    /\ n < Len(trace.entry)
    /\ n < Len(sentences)

\* C10 as stated, for a manager that has a translator: if the input first
\* fails the match at position k, then after the call the committed sources
\* are [c1..c(k-1)], the paragraphs are the single paragraph translating that
\* prefix, and the draft is the input's sentence list from position k onward.
C10_DivergenceTrim ==
    \A sentences \in {segment_sentences(last_processed_text)} :
    \A n \in 0..Len(trace.entry) :
        (translator /\ DivergedAfter(sentences, n)) =>
            \E prefix \in {SubSeq(trace.entry, 1, n)} :
               /\ committed_sources = prefix
               /\ committed_paragraphs = <<translate(join(<<" ">>, prefix))>>
               /\ draft_sources = SubSeq(sentences, n + 1, Len(sentences))

\* C10, amended: if the input first fails the match at position k, then the
\* alignment truncates the committed sources to [c1..c(k-1)] and takes the
\* input's sentences from position k onward as the draft span, on which the
\* draft cap and the commit check of the same call then act (so both are as
\* stated at return when the span is below both commit thresholds); the
\* paragraphs are replaced by a single paragraph translating that prefix when
\* k > 1 and the re-translation returns a non-empty string, by no paragraph
\* when k = 1, no translator is set or the re-translation returns an empty
\* string, and are left as they were when the re-translation raises.
C10_DivergenceTrimAligned ==
    \A sentences \in {segment_sentences(last_processed_text)} :
    \A n \in 0..Len(trace.entry) :
        DivergedAfter(sentences, n) =>
            \E prefix \in {SubSeq(trace.entry, 1, n)} :
            \E span \in {SubSeq(sentences, n + 1, Len(sentences))} :
               /\ trace.trimmed
               /\ trace.committed = prefix
               /\ trace.skipped \o trace.draft = span
               /\ (prefix # <<>> /\ translator) <=> outcome_of("retranslate") # "none"
               /\ outcome_of("retranslate") # "none" =>
                      text_of("retranslate") = join(<<" ">>, prefix)
               /\ trace.paragraphs =
                      CASE outcome_of("retranslate") = "ok" ->
                               <<translate(join(<<" ">>, prefix))>>
                        [] outcome_of("retranslate") = "raise" -> trace.entry_paragraphs
                        [] OTHER -> <<>>
               /\ (Len(span) < DRAFT_COMMIT_THRESHOLD
                      /\ char_length(span) < DRAFT_CHAR_THRESHOLD) =>
                      /\ committed_sources = prefix
                      /\ draft_sources = span
                      /\ committed_paragraphs = trace.paragraphs

\* committed sources S1 S2 S3 S4 and an input whose third sentence diverged:
\* the committed sources are S1 S2 under one rebuilt paragraph and the draft
\* starts at the diverged sentence
C10_Witness ==
    /\ trace.path = "update"
    /\ trace.trimmed
    /\ trace.matched = 2
    /\ Len(trace.entry) = COMMIT_COUNT
    /\ committed_sources = <<sentence(1), sentence(2)>>
    /\ committed_paragraphs = <<translate(join(<<" ">>, committed_sources))>>
    /\ draft_sources = <<revision(3, "different"), sentence(4), sentence(5)>>

(***************************************************************************)
(* Properties of the pipeline                                              *)
(***************************************************************************)
\* C3: when ASR threads wrote the slot several times before a translation
\* thread takes it, the take observes exactly the newest of those writes, and
\* that text, none of the older ones, is what the thread passes to process_text.
C3_Conflation ==
    \A g \in Threads :
        tr[g].covered # <<>> =>
            \E newest \in {tr[g].covered[Len(tr[g].covered)]} :
               /\ tr[g].raw_text = newest.text
               /\ tr[g].write = newest.write
               /\ \A i \in 1..(Len(tr[g].covered) - 1) :
                      tr[g].write # tr[g].covered[i].write

\* three writes before one take, and the third is being processed
C3_Witness ==
    \E g \in Threads :
        /\ Len(tr[g].covered) >= 3
        /\ tr[g].pc = "process"
        /\ tr[g].write = tr[g].covered[3].write

\* C4: the texts passed to process_text follow the order in which they were
\* written to the slot: no text is passed after a text written later.
C4_InWriteOrder ==
    [][\A g \in Threads :
          (tr[g].pc = "call" /\ tr'[g].pc = "process") => tr[g].write >= last_passed]_vars

(***************************************************************************)
(* Properties of the audio buffer                                          *)
(***************************************************************************)
\* a buffered duration that reaches max_segment_duration, in samples
ReachesMaximum(samples) == samples * 1000 >= max_segment_duration * SAMPLE_RATE

\* an add_audio call has returned and no other call has been made since
Returned == add_pc = "idle" /\ call.op = "add_audio"

\* the call emitted one segment, all the buffer held with the chunk of the
\* call at its end, and left the buffer empty and not in speech
EmittedWholeBuffer ==
    /\ Len(emitted) = call.emitted + 1
    /\ emitted[Len(emitted)].audio = call.held
    /\ emitted[Len(emitted)].samples = call.samples
    /\ buffer = <<>>
    /\ buffer_samples = 0
    /\ ~speech_started

\* C7: a call of add_audio with a silence chunk, made while speech is being
\* accumulated and when the silence, measured from the first silence chunk
\* after the last speech chunk, has lasted longer than speech_pad_ms, emits
\* exactly one segment (the buffer with that chunk) and leaves the buffer
\* idle; a silence chunk emits nothing when the silence has not lasted longer
\* than the pad or when the buffer is idle (as it is after the emission), the
\* buffered duration staying below max_segment_duration.
C7_SilenceEndsSegment ==
    (Returned /\ ~call.speech) =>
        IF call.started /\ call.elapsed > speech_pad_ms
        THEN EmittedWholeBuffer
        ELSE ~ReachesMaximum(call.samples) =>
                /\ Len(emitted) = call.emitted
                /\ speech_started = call.started
                /\ buffer = call.held

\* speech, then silence longer than the pad: one segment, and a further
\* silence chunk that found the buffer idle and emitted nothing
C7_Witness ==
    /\ Returned /\ ~call.speech /\ ~call.started
    /\ call.elapsed > speech_pad_ms
    /\ Len(emitted) = 1
    /\ emitted[1].cause = "silence"
    /\ Len(emitted[1].audio) >= 3
    /\ emitted[1].audio[1].speech
    /\ ~ReachesMaximum(emitted[1].samples)

\* C8: when the duration the buffer has accumulated in an add_audio call
\* reaches max_segment_duration, whatever the chunk and the state, the call
\* emits the whole buffer and leaves the buffer idle; after every add_audio
\* call the buffered duration is below max_segment_duration.
C8_ForcedEmission ==
    /\ add_pc = "idle" => ~ReachesMaximum(buffer_samples)
    /\ (Returned /\ ReachesMaximum(call.samples)) => EmittedWholeBuffer

\* speech that reaches the maximum exactly, without any silence
C8_Witness ==
    /\ Returned /\ call.speech
    /\ call.samples * 1000 = max_segment_duration * SAMPLE_RATE
    /\ Len(call.held) >= 2
    /\ \A i \in 1..Len(call.held) : call.held[i].speech
    /\ Len(emitted) = 1
    /\ emitted[1].cause = "max"

(***************************************************************************)
(* Properties of reset()                                                   *)
(***************************************************************************)
\* the fields of the buffer are those of a buffer just constructed
FreshBuffer ==
    /\ buffer = <<>>
    /\ buffer_samples = 0
    /\ ~speech_started
    /\ speech_start_time = None
    /\ silence_start_time = None
    /\ pre_buffer = 0
    /\ ~vad_used

\* the fields of the manager are those of a manager just constructed
FreshManager ==
    /\ committed_sources = <<>>
    /\ committed_paragraphs = <<>>
    /\ draft_sources = <<>>
    /\ draft_translation = <<>>
    /\ last_processed_text = <<>>

\* C11: from any reachable state, reset() of the buffer leaves every field of
\* the buffer (chunks held, sample count, speech flag, both timers, pre-buffer,
\* detector) as the constructor makes it, and reset() of the manager leaves
\* the committed sources and paragraphs, the draft sources and translation
\* and the last text as the constructor makes them; what a later call does
\* depends on these fields only.
C11_ResetIsFresh ==
    /\ call.op = "reset" => FreshBuffer
    /\ trace.path = "reset" => FreshManager

\* both resets done on components that held something: a buffer in speech
\* with chunks and a pre-buffer, a manager with committed paragraphs
C11_Witness ==
    /\ call.op = "reset" /\ call.started /\ call.held # <<>> /\ call.samples > 0
    /\ trace.path = "reset" /\ trace.entry # <<>> /\ trace.entry_paragraphs # <<>>
    /\ FreshBuffer /\ FreshManager

(***************************************************************************)
(* Properties of the manager when the translator fails                     *)
(***************************************************************************)
IsTranslationState(r) == DOMAIN r = {"committed_text", "draft_text"}

\* the translator calls of the latest call, by kind
kinds_called == {tlog[i].kind : i \in 1..Len(tlog)}

\* C12: whatever translator calls raise (draft, commit batch, draft after the
\* commit, committed prefix after a trim), process_text raises nothing and
\* returns a TranslationState; and exceptions raised in earlier calls do not
\* keep a later call on a changed text from invoking the translator: a call
\* that has a draft to translate translates it.
C12_FailuresNeverAbort ==
    AfterCall =>
        /\ IsTranslationState(result)
        /\ (trace.path = "update" /\ translator /\ trace.draft # <<>>) =>
              /\ "draft" \in kinds_called
              /\ text_of("draft") = join(<<" ">>, trace.draft)

\* a call in which the translator raised, and a later call on another text
\* that invoked the translator and got its translation
C12_Witness ==
    /\ AfterCall /\ trace.path = "update"
    /\ nraise >= 1 /\ raises(tlog) = 0
    /\ outcome_of("redraft") = "ok"
    /\ IsTranslationState(result)
    /\ result.draft_text # <<>>

\* C13: when a translator call raises in an update, the text it was for is
\* empty in the state the update returns: draft_text when the translation of
\* the draft raised (the one before the commit check, no commit following, or
\* the one of the draft that remains after a commit), committed_text when the
\* re-translation of the trimmed committed prefix raised (and no batch was
\* committed after it).
C13_FailedTextIsEmpty ==
    (AfterCall /\ trace.path = "update") =>
        /\ outcome_of("redraft") = "raise" => result.draft_text = <<>>
        /\ (outcome_of("draft") = "raise" /\ "commit" \notin kinds_called)
              => result.draft_text = <<>>
        /\ (outcome_of("retranslate") = "raise" /\ "commit" \notin kinds_called)
              => result.committed_text = <<>>

(***************************************************************************)
(* Properties of the manager on an append-only source                      *)
(***************************************************************************)
\* C14: when the sentences of every text are those of the text before it
\* with zero or more sentences appended, no call trims the committed sources
\* and the committed_text a call returns starts with the committed_text the
\* call before it returned.
C14_CommittedTextStable ==
    [][IsCall => /\ ~trace'.trimmed
                 /\ IsPrefix(result.committed_text, result'.committed_text)]_vars

(***************************************************************************)
(* Properties of the pipeline over start() and stop()                      *)
(***************************************************************************)
\* the translation threads that are inside process_text
InProcessText == {g \in Threads : tr[g].pc = "process"}

\* C15: whatever start() and stop() calls are made, at most one thread is
\* inside process_text (and so inside the translator) at any time.
C15_TranslatorSerialized == Cardinality(InProcessText) <= 1

\* a capacity below the number of chunks the capture delivers in a run
QueueCapacity == MaxChunks - 1

\* C16: the queue between the capture and the producer loop never holds more
\* chunks than a fixed capacity, however far the capture is ahead of the
\* producer loop (an arriving chunk displaces the oldest one when it is full).
C16_QueueBounded == Len(audio_queue) <= QueueCapacity

\* the loops of the g-th start() have ended, or were never started
Exited(g) == asr[g].pc \in {"unborn", "done", "dead"} /\ tr[g].pc \in {"unborn", "done"}

C18_RecognizerFailureSurfaced ==
    \A g \in Threads : (process_thread = g /\ asr[g].pc = "dead") => ~running

(***************************************************************************)
(* Properties of the segments the audio buffer emits                       *)
(***************************************************************************)
\* C19: every segment handed to on_segment_ready holds at least one sample,
\* whatever chunks (of no sample too) and resets came before.
C19_NoEmptySegment == \A i \in 1..Len(emitted) : emitted[i].samples > 0

\* C20: an add_audio call hands over no segment or one, at every point of
\* the call and when it has returned.
C20_AtMostOneSegment ==
    call.op = "add_audio" => Len(emitted) \in {call.emitted, call.emitted + 1}

\* a call with a silence chunk that ended the speech by the pad and brought
\* the buffer to the maximum as well, and handed over one segment
C20_Witness ==
    /\ Returned /\ ~call.speech /\ call.started
    /\ call.elapsed > speech_pad_ms
    /\ ReachesMaximum(call.samples)
    /\ Len(emitted) = call.emitted + 1
    /\ emitted[Len(emitted)].cause = "silence"

\* C21: add_audio is never inside on_segment_ready or waiting for it, with
\* the lock or without: it hands the segment to a thread and returns, so
\* further calls are made and return while callbacks are still running.
C21_EmissionDoesNotBlock == add_pc \notin {"callback", "callback_locked"}

\* an add_audio call that was made and has returned while the callbacks of
\* all the segments emitted before it were still running
C21_Witness ==
    /\ Returned
    /\ call.emitted >= 1 /\ Len(emitted) = call.emitted
    /\ callbacks = Len(emitted)

\* C22: every segment add_audio emits is what the pre-buffer holds at that
\* moment followed by the chunks of the main buffer.
C22_PreRollPrepended ==
    \A i \in 1..Len(emitted) : emitted[i].lead_in = emitted[i].pre_roll

\* this step is the part of an add_audio call under the lock
IsAddAudio == nadds' = nadds + 1

\* the chunks that have the length of the chunk of this step's add_audio call
AddedChunks == {c \in Chunks : c.samples = call'.chunk}

\* the main buffer after the step is the given chunks, or they were flushed
\* to the segment emitted in the step
HeldOrEmitted(held) ==
    \/ buffer' = held /\ emitted' = emitted
    \/ /\ buffer' = <<>>
       /\ Len(emitted') = Len(emitted) + 1
       /\ emitted'[Len(emitted')].audio = held

\* C24: a silence chunk that comes when no speech has started changes the
\* pre-buffer only, which never holds more than its maximum, and leaves the
\* main buffer, its sample count and the speech flag as they were; a chunk,
\* speech or silence, that comes when speech has started is appended to the
\* main buffer (which the same call may flush to a segment) and leaves the
\* pre-buffer as it was.
C24_ChunkRouting ==
    [][IsAddAudio =>
         /\ (~call'.speech /\ ~speech_started) =>
               /\ buffer' = buffer
               /\ buffer_samples' = buffer_samples
               /\ speech_started' = speech_started
               /\ emitted' = emitted
               /\ pre_buffer' = Min(pre_buffer_maxlen, pre_buffer + call'.chunk)
         /\ speech_started =>
               /\ \E c \in AddedChunks : HeldOrEmitted(Append(buffer, c))
               /\ pre_buffer' = pre_buffer
         /\ pre_buffer' <= pre_buffer_maxlen]_vars

\* a silence chunk went to the pre-buffer, then speech and a silence chunk
\* after it went to the main buffer
C24_Witness ==
    /\ Returned /\ ~call.speech /\ call.started
    /\ pre_buffer > 0
    /\ Len(buffer) >= 2
    /\ buffer[1].speech /\ ~buffer[Len(buffer)].speech

(***************************************************************************)
(* Properties of the manager: the draft, the cold start and the commits    *)
(***************************************************************************)
\* the sentences of the text of the latest call, and the sentences the call
\* worked on: the last DRAFT_COMMIT_THRESHOLD of them on a cold start
InputSentences == segmented(last_processed_text)
UsedSentences ==
    IF trace.entry = <<>> /\ Len(InputSentences) > DRAFT_COMMIT_THRESHOLD
    THEN SubSeq(InputSentences, Len(InputSentences) - DRAFT_COMMIT_THRESHOLD + 1,
                Len(InputSentences))
    ELSE InputSentences

\* the texts a translator call may be given when only the given sentences
\* are translated: runs of them joined by blanks
JoinedRuns(sentences) ==
    {join(<<" ">>, SubSeq(sentences, a, b)) : a, b \in 1..Len(sentences)}

\* the commit check fired on the draft of the latest call by its length in
\* characters, and the draft was short of COMMIT_COUNT sentences
ShortDraftCommit ==
    /\ trace.path = "update"
    /\ Len(trace.draft) >= 2
    /\ Len(trace.draft) < COMMIT_COUNT
    /\ char_length(trace.draft) >= DRAFT_CHAR_THRESHOLD

\* C25: when the commit check fires by the character threshold on a draft of
\* at least two and fewer than COMMIT_COUNT sentences, all the draft sentences
\* but the last are committed and at least one sentence stays in the draft.
C25_ShortDraftCommit ==
    ShortDraftCommit =>
        /\ committed_sources = trace.committed \o trace.skipped
                                   \o SubSeq(trace.draft, 1, Len(trace.draft) - 1)
        /\ Len(draft_sources) >= 1

\* C26: a process_text call that finds no committed sources and is given more
\* than DRAFT_COMMIT_THRESHOLD sentences works on the last
\* DRAFT_COMMIT_THRESHOLD of them only: these make up the committed sources
\* and the draft after the call, and every text given to the translator is
\* made of them.
C26_ColdStartWindow ==
    (trace.path = "update" /\ trace.entry = <<>>
        /\ Len(InputSentences) > DRAFT_COMMIT_THRESHOLD) =>
        \E window \in {SubSeq(InputSentences,
                              Len(InputSentences) - DRAFT_COMMIT_THRESHOLD + 1,
                              Len(InputSentences))} :
           /\ committed_sources \o draft_sources = window
           /\ \A i \in 1..Len(tlog) : tlog[i].text \in JoinedRuns(window)

\* a first call with more than DRAFT_COMMIT_THRESHOLD sentences and a
\* translator: the translator was called, sentences were committed and drafted
C26_Witness ==
    /\ trace.path = "update"
    /\ trace.entry = <<>>
    /\ Len(InputSentences) > DRAFT_COMMIT_THRESHOLD + 1
    /\ Len(tlog) >= 2
    /\ committed_sources # <<>>
    /\ draft_sources # <<>>

\* the draft of the latest call as the alignment left it
AlignedDraft == SubSeq(UsedSentences, trace.matched + 1, Len(UsedSentences))

\* C27: when the draft after alignment holds more than MAX_DRAFT_SENTENCES
\* sentences, the oldest sentences over the cap are appended in order to the
\* committed sources, the draft is the newest MAX_DRAFT_SENTENCES sentences,
\* no translator call is given any of the appended sentences, and the only
\* paragraph the call can add is that of the batch committed from the draft.
C27_ForceCommit ==
    (trace.path = "update" /\ Len(AlignedDraft) > MAX_DRAFT_SENTENCES) =>
        \E excess \in {SubSeq(AlignedDraft, 1, Len(AlignedDraft) - MAX_DRAFT_SENTENCES)} :
        \E newest \in {SubSeq(AlignedDraft, Len(AlignedDraft) - MAX_DRAFT_SENTENCES + 1,
                              Len(AlignedDraft))} :
           /\ trace.draft = newest
           /\ IsPrefix(trace.committed \o excess, committed_sources)
           /\ committed_sources \o draft_sources = trace.committed \o excess \o newest
           /\ \A i \in 1..Len(tlog) :
                  tlog[i].text \in JoinedRuns(newest) \cup {join(<<" ">>, trace.committed)}
           /\ committed_paragraphs \in
                  {trace.paragraphs,
                   Append(trace.paragraphs,
                          translate(join(<<" ">>, SubSeq(newest, 1, COMMIT_COUNT))))}

\* a call with a translator whose aligned draft was two sentences over the cap
C27_Witness ==
    /\ trace.path = "update"
    /\ translator
    /\ Len(AlignedDraft) >= MAX_DRAFT_SENTENCES + 2
    /\ Len(trace.skipped) >= 2
    /\ Len(tlog) >= 2

\* every translator call of the latest process_text call returned a text
TranslatorSucceeded == \A i \in 1..Len(tlog) : tlog[i].outcome = "ok"

\* C28: a process_text call that reaches the draft translation with a
\* translator and a draft that is not empty gives the translator the whole
\* draft, joined; if every translator call of the call succeeds, the draft_text
\* it returns is the translation of the draft sentences left at its end, and
\* "" if none is left; and with an empty draft the draft_text is "".
C28_OverwriteDraft ==
    trace.path = "update" =>
        /\ (translator /\ trace.draft # <<>>) =>
               \E i \in 1..Len(tlog) :
                  tlog[i].kind = "draft" /\ tlog[i].text = join(<<" ">>, trace.draft)
        /\ (translator /\ TranslatorSucceeded) =>
               result.draft_text =
                   IF draft_sources = <<>> THEN <<>>
                   ELSE translate(join(<<" ">>, draft_sources))
        /\ trace.draft = <<>> => result.draft_text = <<>>

\* a second or later call with a translator that translated its draft,
\* committed a batch of it, and returned the translation of what is left
C28_Witness ==
    /\ trace.path = "update"
    /\ ncalls >= 2
    /\ translator /\ TranslatorSucceeded
    /\ Len(tlog) >= 3
    /\ draft_sources # <<>> /\ draft_sources # trace.draft
    /\ result.draft_text = translate(join(<<" ">>, draft_sources))

\* this step is a process_text call that trims nothing and commits a batch
\* of its draft
CommitEvent ==
    /\ IsCall
    /\ trace'.path = "update"
    /\ ~trace'.trimmed
    /\ \/ Len(trace'.draft) >= DRAFT_COMMIT_THRESHOLD
       \/ char_length(trace'.draft) >= DRAFT_CHAR_THRESHOLD

\* C29: a process_text call of a manager with a translator that trims nothing
\* adds exactly one committed paragraph when it commits a batch and none when
\* it does not, whatever the translator returns or raises; so the paragraphs
\* are as many as the commits.
C29_OneParagraphPerCommit ==
    [][(IsCall /\ translator /\ ~trace'.trimmed) =>
          Len(committed_paragraphs') =
              Len(committed_paragraphs) + (IF CommitEvent THEN 1 ELSE 0)]_vars

(***************************************************************************)
(* Properties of the pipeline: what the producers publish                  *)
(***************************************************************************)
\* this step is a write of an ASR thread to the slot
IsSlotWrite == writes' = writes + 1

\* C30: an ASR thread writes the slot only with a text that is not empty and
\* differs from the text the slot holds, and it holds the slot lock from the
\* write until it has set the event; so the slot never gets the text of the
\* write before it a second time.
C30_ChangeOnlyPublication ==
    [][/\ IsSlotWrite =>
             /\ latest_raw_text' # 0
             /\ latest_raw_text' # latest_raw_text
             /\ text_lock'[1] = "asr"
       /\ (new_text_event' /\ ~new_text_event /\ running') =>
             (text_lock[1] = "asr" /\ text_lock' = Nobody)]_vars

(***************************************************************************)
(* Properties of the sink                                                  *)
(***************************************************************************)
\* a translator call of the step raised
TranslatorRaised == \E i \in 1..Len(tlog') : tlog'[i].outcome = "raise"

\* this step is _on_caption handling a caption that is neither a placeholder
\* nor the text sent last
IsCaption == tlog' # <<>> /\ tlog'[1].kind = "caption"

\* C23: when a translator call raises while the consumer loop handles a text
\* through process_text, or while _on_caption handles a caption, the sink
\* still gets an event with that text; and the texts handled after it get
\* their events too.
C23_FailureKeepsUpdate ==
    [][/\ IsCall => /\ subtitle' # NoEvent
                    /\ subtitle'.text = last_processed_text'
                    /\ TranslatorRaised => subtitle' # subtitle
       /\ IsCaption => /\ subtitle' # NoEvent
                       /\ subtitle'.text = tlog'[1].text
                       /\ subtitle' # subtitle]_vars

\* a text handled and delivered with its translations after the translator
\* had raised on the text before it, whose event had been delivered too
C23_Witness ==
    /\ ncalls >= 2
    /\ nraise >= 1
    /\ tlog # <<>> /\ TranslatorSucceeded
    /\ tlog[1].kind # "caption"
    /\ subtitle # NoEvent
    /\ subtitle.text = last_processed_text
    /\ subtitle.state = result
    /\ result.draft_text # <<>>

(***************************************************************************)
(* Properties of the pipeline: the lock, the resets and the wake-ups       *)
(***************************************************************************)
\* thread g of the kind is inside the transcriber, process_text with its
\* translator calls, or the subtitle callback
InExternalCall(kind, g) ==
    IF kind = "asr" THEN asr[g].pc \in {"recognize", "emit"}
    ELSE tr[g].pc = "process"

\* C31: a thread that is inside the transcriber, inside process_text or
\* inside the subtitle callback does not hold _text_lock.
C31_NoLockAcrossCalls ==
    \A kind \in {"asr", "tr"}, g \in Threads :
        InExternalCall(kind, g) => text_lock # <<kind, g>>

\* an ASR thread has written the slot and holds the lock while a translation
\* thread is inside process_text
C31_Witness ==
    \E g, h \in Threads :
        /\ tr[g].pc = "process"
        /\ asr[h].pc = "signal"
        /\ text_lock = asr_thread(h)

\* C32: start() never resets the state manager while a translation thread is
\* inside process_text.
C32_NoResetDuringProcessing ==
    [][(starts' = starts + 1 /\ state_manager) =>
          \A g \in Threads : tr[g].pc # "process"]_vars

\* C33: when an ASR thread is inside process_audio, the stream of the
\* transcriber holds no audio of a session before the one that started the
\* thread: the stream was cleared between the sessions.
C33_RecognizerCleared ==
    \A g \in Threads : asr[g].pc = "recognize" => stream_from >= g

\* the slot holds a write that no translation thread has taken
Untaken == unread # <<>>

\* translation thread g has taken a text that is not empty and has not passed
\* it to process_text yet
Holding(g) == tr[g].pc \in {"clear", "call"} /\ tr[g].raw_text # 0

C35_MinimumDuration ==
    \A i \in 1..Len(emitted) :
        emitted[i].samples * 1000 >= min_segment_duration * SAMPLE_RATE

(***************************************************************************)
(* Properties of the delivery of segments                                  *)
(***************************************************************************)
\* this step ends the _on_audio_segment call for segment i
Delivered(i) == deliver[i] \notin {"done", "given_up", "raised"}
                    /\ deliver'[i] \in {"done", "given_up", "raised"}

\* C36: the transcription queue never holds more than three segments, and
\* every _on_audio_segment call ends, without an exception, with its segment
\* in the queue.
C36_DropOldest ==
    /\ [](Len(transcription_queue) <= queue_maxsize)
    /\ [][\A i \in SegmentIds :
             Delivered(i) =>
                /\ deliver'[i] = "done"
                /\ \E k \in 1..Len(transcription_queue') : transcription_queue'[k] = i]_vars

\* the thread of segment i has not called on_segment_ready yet, or has not
\* reached the queue yet
NotInvoked(i) == deliver[i] = "started"
NotEnqueued(i) == deliver[i] \in {"started", "put", "full", "put_again"}

\* C38: on_segment_ready is called for the segments in the order the buffer
\* emitted them, and they are put into the transcription queue in that order.
C38_DeliveryOrder ==
    [][\A i, j \in SegmentIds :
          (j < i) =>
             /\ (NotInvoked(i) /\ ~NotInvoked(i)') => ~NotInvoked(j)
             /\ (NotEnqueued(i) /\ deliver'[i] = "done") => ~NotEnqueued(j)]_vars

(***************************************************************************)
(* Properties of the buffer: what becomes of the chunks appended            *)
(***************************************************************************)
RECURSIVE Concatenated(_)
\* the chunks of the given segments, in order
Concatenated(segs) ==
    IF segs = <<>> THEN <<>> ELSE Head(segs).audio \o Concatenated(Tail(segs))

\* the chunks emitted so far, then the chunks in the main buffer
EmittedThenHeld(segs, held) == Concatenated(segs) \o held

\* this step is a reset() call
IsBufferReset == call'.op = "reset" /\ call.op # "reset"

\* C37: in every step that is not a reset, the chunks emitted followed by
\* the chunks held are what they were, followed by the chunk the step
\* appended, if it appended one: no chunk is lost, doubled or moved.  A
\* step that emits a segment emits one, after those emitted before, and
\* leaves the main buffer empty.  The sample counter is always the total
\* length of the chunks held, and is 0 with no chunk held when no speech has
\* started.
C37_NoAudioLost ==
    /\ [](/\ buffer_samples = buffer_samples_of(buffer)
          /\ ~speech_started => (buffer_samples = 0 /\ buffer = <<>>)
          /\ \A k \in 1..Len(emitted) :
                emitted[k].samples = buffer_samples_of(emitted[k].audio))
    /\ [][~IsBufferReset =>
            /\ IF IsAddAudio /\ (call'.speech \/ speech_started)
               THEN \E c \in AddedChunks :
                       EmittedThenHeld(emitted', buffer') =
                          Append(EmittedThenHeld(emitted, buffer), c)
               ELSE EmittedThenHeld(emitted', buffer') =
                       EmittedThenHeld(emitted, buffer)
            /\ emitted' # emitted =>
                  /\ Len(emitted') = Len(emitted) + 1
                  /\ SubSeq(emitted', 1, Len(emitted)) = emitted
                  /\ buffer' = <<>>]_vars

\* every add_audio call so far appended its chunk, none was dropped by a
\* reset; three or more of the chunks went out as one segment and a later
\* one is held
C37_Witness ==
    /\ Len(emitted) = 1
    /\ Len(emitted[1].audio) >= 3
    /\ buffer # <<>>
    /\ Len(EmittedThenHeld(emitted, buffer)) = nadds

(***************************************************************************)
(* Properties of the manager: the positions of the sentences                *)
(***************************************************************************)
\* C39: after a process_text call that reached the draft step, the committed
\* sources match, position by position, the leading sentences the call
\* worked on, the draft sources are the sentences after them, and together
\* they are as many as the sentences the call worked on.
C39_PositionsSynchronized ==
    trace.path = "update" =>
        /\ Len(committed_sources) + Len(draft_sources) = Len(UsedSentences)
        /\ Len(committed_sources) <= Len(UsedSentences)
        /\ \A i \in 1..Min(Len(committed_sources), Len(UsedSentences)) :
              matches(committed_sources[i], UsedSentences[i])
        /\ draft_sources = SubSeq(UsedSentences, Min(Len(committed_sources), Len(UsedSentences)) + 1,
                                  Len(UsedSentences))

(***************************************************************************)
(* Properties of the pipeline: how often a hypothesis is processed          *)
(***************************************************************************)
\* translation thread g passes the text it took to process_text in this
\* step; the subtitle event for it follows
PassesToProcessText(g) == tr[g].pc = "call" /\ tr'[g].pc = "process"

\* C40: the write of the slot whose text a translation thread passes to
\* process_text, and then emits as a subtitle event, is never the write
\* that was passed to process_text just before: no write is processed and
\* emitted twice, whether the thread was woken by a write or by stop().
C40_AtMostOnce ==
    [][\A g \in Threads : PassesToProcessText(g) => tr[g].write # last_passed]_vars
====
